---- MODULE Spec2Model ----
(***************************************************************************)
(* Robot command protocol bridge (digitalfuture/robo-code).                *)
(*                                                                         *)
(* Spec        : the bridge process, src/server/index.js, in string mode   *)
(*               (PROTOCOL = 'TCP_STRING'): controller sockets, reconnect  *)
(*               timers, the single pendingCommand slot, its timeout       *)
(*               timers, the callers' promises and the browser sockets.    *)
(* SpecCorr    : the same handlers under a controller that connects,       *)
(*               answers and closes (no 'error' event, no CONNECT).        *)
(* SpecSession : the gateway with several browser connections in turn, a   *)
(*               controller that connects and closes, and CONNECT messages.*)
(* SpecClient  : the browser-side RobotProtocolClient of src/src/App.vue   *)
(*               (pendingCommands map, ProtocolParser.parseResponse).      *)
(* SpecConnect : CONNECT messages of one browser against the controller.   *)
(* SpecFrames  : one controller byte stream delivered in every chunking.   *)
(* SpecLibrary : one call of a function of CommandBuilder or               *)
(*               ProtocolParser on an argument of a bounded set.           *)
(* SpecFacade  : the client with one call of getCurrentJointPosition.      *)
(*                                                                         *)
(* Text is a sequence of one-character strings, so that the regular        *)
(* expressions of the source are computed and not assumed.                 *)
(***************************************************************************)
EXTENDS Integers, Sequences, FiniteSets, TLC

----------------------------------------------------------------------------
(* Bounds of the model *)

\* controller sockets not yet closed plus reconnect timers not yet fired, at once
MaxSockets == 2
\* promises the model holds: ROBOT_COMMAND messages the browser sends (bridge),
\* sendCommand calls (client)
MaxCmds == 2
\* browser connections the gateway accepts
MaxWs == 1
\* commands submitted in SpecCorr and in SpecSession
MaxCorrCmds == 1
\* sendCommand calls made in SpecClient
MaxClientCmds == 1
\* browser connections the gateway accepts in SpecSession
MaxSessions == 2
\* register reads and writes awaited at once in SpecModbus
MaxRequests == 2
\* log entries appended in SpecLog
MaxLogged == 103
\* WebSocket objects robotService creates in SpecService
MaxServiceSockets == 2
\* sendCommand calls of robotService in SpecService
MaxServiceCmds == 2
\* log entries after which the page and the bridge are quiet in SpecService
MaxServiceLogged == 13

----------------------------------------------------------------------------
(* Text: characters, character classes, numbers *)

DigitChars == <<"0", "1", "2", "3", "4", "5", "6", "7", "8", "9">>

UpperChars ==
  <<"A", "B", "C", "D", "E", "F", "G", "H", "I", "J", "K", "L", "M",
    "N", "O", "P", "Q", "R", "S", "T", "U", "V", "W", "X", "Y", "Z">>

LowerChars ==
  <<"a", "b", "c", "d", "e", "f", "g", "h", "i", "j", "k", "l", "m",
    "n", "o", "p", "q", "r", "s", "t", "u", "v", "w", "x", "y", "z">>

\* \d of a JavaScript regular expression
IsDigit(c) == \E i \in 1..10 : DigitChars[i] = c

\* \s of a JavaScript regular expression (the characters the model uses)
IsSpace(c) == c \in {" ", "\t", "\n", "\r"}

\* the /i flag: compare letters without case
Lower(c) ==
  IF \E i \in 1..26 : UpperChars[i] = c
    THEN LowerChars[CHOOSE i \in 1..26 : UpperChars[i] = c]
    ELSE c

DigitVal(c) == (CHOOSE i \in 1..10 : DigitChars[i] = c) - 1

\* parseInt on a non-empty run of decimal digits
RECURSIVE parseInt(_)
parseInt(ds) ==
  IF ds = <<>> THEN 0
  ELSE 10 * parseInt(SubSeq(ds, 1, Len(ds) - 1)) + DigitVal(ds[Len(ds)])

\* `${id}` of a template literal: the decimal digits of a natural number
RECURSIVE NumStr(_)
NumStr(n) ==
  IF n < 10 THEN <<DigitChars[n + 1]>>
  ELSE NumStr(n \div 10) \o <<DigitChars[(n % 10) + 1]>>

\* the literal lit occurs in t at position p (ci: without case)
LitAt(t, p, lit, ci) ==
  /\ p >= 1
  /\ p + Len(lit) - 1 <= Len(t)
  /\ \A i \in 1..Len(lit) :
       IF ci THEN Lower(t[p + i - 1]) = Lower(lit[i]) ELSE t[p + i - 1] = lit[i]

\* \s* from position p: the first position that holds no white space
SkipSpace(t, p) ==
  CHOOSE q \in p..(Len(t) + 1) :
    /\ \A j \in p..(q - 1) : IsSpace(t[j])
    /\ (q = Len(t) + 1 \/ ~IsSpace(t[q]))

\* \d* from position p: the first position that holds no digit
SkipDigits(t, p) ==
  CHOOSE q \in p..(Len(t) + 1) :
    /\ \A j \in p..(q - 1) : IsDigit(t[j])
    /\ (q = Len(t) + 1 \/ ~IsDigit(t[q]))

\* String.prototype.trim
trim(t) ==
  IF \A i \in 1..Len(t) : IsSpace(t[i]) THEN <<>>
  ELSE LET a == CHOOSE i \in 1..Len(t) :
                  ~IsSpace(t[i]) /\ \A j \in 1..(i - 1) : IsSpace(t[j])
           b == CHOOSE i \in 1..Len(t) :
                  ~IsSpace(t[i]) /\ \A j \in (i + 1)..Len(t) : IsSpace(t[j])
       IN SubSeq(t, a, b)

\* String.prototype.lastIndexOf for one character, 1-based, 0 when absent
lastIndexOf(t, c) ==
  IF \E i \in 1..Len(t) : t[i] = c
    THEN CHOOSE i \in 1..Len(t) : t[i] = c /\ \A j \in (i + 1)..Len(t) : t[j] # c
    ELSE 0

\* String.prototype.includes for one character
includes(t, c) == \E i \in 1..Len(t) : t[i] = c

----------------------------------------------------------------------------
(* Regular expressions of the bridge, src/server/index.js *)

NoMatch == [ok |-> FALSE, digits |-> <<>>, name |-> <<>>]

\* /\[id\s*=\s*(\d+)/i tried at position p
IdPatternAt(t, p) ==
  IF ~LitAt(t, p, <<"[", "i", "d">>, TRUE) THEN NoMatch
  ELSE LET q == SkipSpace(t, p + 3) IN
       IF ~LitAt(t, q, <<"=">>, FALSE) THEN NoMatch
       ELSE LET r == SkipSpace(t, q + 1)
                e == SkipDigits(t, r)
            IN IF e > r
                 THEN [ok |-> TRUE, digits |-> SubSeq(t, r, e - 1), name |-> <<>>]
                 ELSE NoMatch

\* response.match(/\[id\s*=\s*(\d+)/i): the leftmost match
idMatch(t) ==
  IF \E p \in 1..Len(t) : IdPatternAt(t, p).ok
    THEN IdPatternAt(t, CHOOSE p \in 1..Len(t) :
                          /\ IdPatternAt(t, p).ok
                          /\ \A j \in 1..(p - 1) : ~IdPatternAt(t, j).ok)
    ELSE NoMatch

FeedMovFinish == <<"F", "e", "e", "d", "M", "o", "v", "F", "i", "n", "i", "s", "h">>
ActMovFinish == <<"A", "c", "t", "M", "o", "v", "F", "i", "n", "i", "s", "h">>
RobotStopWord == <<"R", "o", "b", "o", "t", "S", "t", "o", "p">>
SafeDoorIsOpen == <<"S", "a", "f", "e", "D", "o", "o", "r", "I", "s", "O", "p", "e", "n">>

\* /\[(word):\s*(\d+)/i tried at position p
WordPatternAt(t, p, word) ==
  IF ~LitAt(t, p, <<"[">> \o word \o <<":">>, TRUE) THEN NoMatch
  ELSE LET r == SkipSpace(t, p + Len(word) + 2)
           e == SkipDigits(t, r)
       IN IF e > r
            THEN [ok |-> TRUE, digits |-> SubSeq(t, r, e - 1),
                  name |-> SubSeq(t, p + 1, p + Len(word))]
            ELSE NoMatch

\* /\[(FeedMovFinish|ActMovFinish):\s*(\d+)/i tried at position p
MotionPatternAt(t, p) ==
  IF WordPatternAt(t, p, FeedMovFinish).ok THEN WordPatternAt(t, p, FeedMovFinish)
  ELSE WordPatternAt(t, p, ActMovFinish)

\* response.match(/\[(FeedMovFinish|ActMovFinish):\s*(\d+)/i): the leftmost match
motionFinishMatch(t) ==
  IF \E p \in 1..Len(t) : MotionPatternAt(t, p).ok
    THEN MotionPatternAt(t, CHOOSE p \in 1..Len(t) :
                              /\ MotionPatternAt(t, p).ok
                              /\ \A j \in 1..(p - 1) : ~MotionPatternAt(t, j).ok)
    ELSE NoMatch

\* /id\s*=\s*(\d+)/ tried at position p (no /i flag)
CommandIdPatternAt(t, p) ==
  IF ~LitAt(t, p, <<"i", "d">>, FALSE) THEN NoMatch
  ELSE LET q == SkipSpace(t, p + 2) IN
       IF ~LitAt(t, q, <<"=">>, FALSE) THEN NoMatch
       ELSE LET r == SkipSpace(t, q + 1)
                e == SkipDigits(t, r)
            IN IF e > r
                 THEN [ok |-> TRUE, digits |-> SubSeq(t, r, e - 1), name |-> <<>>]
                 ELSE NoMatch

\* command.match(/id\s*=\s*(\d+)/) of sendToRobotTcpString: the leftmost match
commandIdMatch(t) ==
  IF \E p \in 1..Len(t) : CommandIdPatternAt(t, p).ok
    THEN CommandIdPatternAt(t, CHOOSE p \in 1..Len(t) :
                                 /\ CommandIdPatternAt(t, p).ok
                                 /\ \A j \in 1..(p - 1) : ~CommandIdPatternAt(t, j).ok)
    ELSE NoMatch

\* /id=(\d+)/ tried at position p
ClientIdPatternAt(t, p) ==
  IF ~LitAt(t, p, <<"i", "d", "=">>, FALSE) THEN NoMatch
  ELSE LET e == SkipDigits(t, p + 3)
       IN IF e > p + 3
            THEN [ok |-> TRUE, digits |-> SubSeq(t, p + 3, e - 1), name |-> <<>>]
            ELSE NoMatch

\* command.match(/id=(\d+)/) of RobotProtocolClient.sendCommand: the leftmost match
clientIdMatch(t) ==
  IF \E p \in 1..Len(t) : ClientIdPatternAt(t, p).ok
    THEN ClientIdPatternAt(t, CHOOSE p \in 1..Len(t) :
                                /\ ClientIdPatternAt(t, p).ok
                                /\ \A j \in 1..(p - 1) : ~ClientIdPatternAt(t, j).ok)
    ELSE NoMatch

\* /\[([^\]]+)\]/ matches at position p: '[', at least one character that is
\* not ']', then ']'
FrameAt(t, p) ==
  /\ p >= 1 /\ p + 2 <= Len(t)
  /\ t[p] = "["
  /\ t[p + 1] # "]"
  /\ \E e \in (p + 2)..Len(t) : t[e] = "]"

\* the position of the ']' that ends the match at p
FrameEnd(t, p) ==
  CHOOSE e \in (p + 2)..Len(t) : t[e] = "]" /\ \A j \in (p + 1)..(e - 1) : t[j] # "]"

\* the loop `while ((match = responseRegex.exec(responseBuffer)) !== null)` with
\* the /g flag: the matches in order, each search starting after the last match
RECURSIVE FrameMatches(_, _)
FrameMatches(t, from) ==
  IF \E p \in from..Len(t) : FrameAt(t, p)
    THEN LET p == CHOOSE q \in from..Len(t) :
                    FrameAt(t, q) /\ \A j \in from..(q - 1) : ~FrameAt(t, j)
             e == FrameEnd(t, p)
         IN <<SubSeq(t, p, e)>> \o FrameMatches(t, e + 1)
    ELSE <<>>

----------------------------------------------------------------------------
(* ProtocolParser.parseResponse, src/src/App.vue lines 350-408 *)

\* a JavaScript value: null (k = "null"), NaN, a number m * 10^e (k = "num",
\* m with no trailing zero), a string s (k = "str"), an array of items
\* (k = "list"), undefined
JsNull == [k |-> "null", m |-> 0, e |-> 0, s |-> <<>>, items |-> <<>>]

\* the longest prefix of t that is a decimal literal, as parseFloat reads it:
\* sign, digits (to p1), '.', digits (to p2), exponent (to x1); len = 0 when
\* there is none.  (The model's tokens never spell Infinity and are short
\* enough to be exact.)
FloatPrefix(t) ==
  LET Only(S) == CHOOSE x \in S : TRUE
      p0 == IF Len(t) >= 1 /\ t[1] \in {"-", "+"} THEN 2 ELSE 1
      x0(p2) == IF p2 + 1 <= Len(t) /\ t[p2 + 1] \in {"-", "+"} THEN p2 + 2 ELSE p2 + 1
      hasExp(p2) == /\ p2 <= Len(t) /\ t[p2] \in {"e", "E"}
                    /\ x0(p2) <= Len(t) /\ IsDigit(t[x0(p2)])
      Value(p1, p2, x1) ==
        LET frac == IF p2 > p1 THEN SubSeq(t, p1 + 1, p2 - 1) ELSE <<>>
            digits == SubSeq(t, p0, p1 - 1) \o frac
            exp == IF x1 = p2 THEN 0
                   ELSE IF t[p2 + 1] = "-" THEN 0 - parseInt(SubSeq(t, x0(p2), x1 - 1))
                   ELSE parseInt(SubSeq(t, x0(p2), x1 - 1))
            nz == IF \A i \in 1..Len(digits) : digits[i] = "0" THEN 0
                  ELSE CHOOSE i \in 1..Len(digits) :
                         digits[i] # "0" /\ \A j \in (i + 1)..Len(digits) : digits[j] = "0"
        IN IF digits = <<>> THEN [len |-> 0, m |-> 0, e |-> 0]
           ELSE [len |-> x1 - 1,
                 m |-> IF t[1] = "-" THEN 0 - parseInt(SubSeq(digits, 1, nz))
                       ELSE parseInt(SubSeq(digits, 1, nz)),
                 e |-> IF nz = 0 THEN 0 ELSE exp - Len(frac) + (Len(digits) - nz)]
  IN Only({Only({Only({Value(p1, p2, x1) :
                         x1 \in {IF hasExp(p2) THEN SkipDigits(t, x0(p2)) ELSE p2}}) :
                   p2 \in {IF p1 <= Len(t) /\ t[p1] = "."
                             THEN SkipDigits(t, p1 + 1) ELSE p1}}) :
             p1 \in {SkipDigits(t, p0)}})

\* parseFloat(s)
parseFloat(t) ==
  IF FloatPrefix(t).len = 0 THEN [JsNull EXCEPT !.k = "NaN"]
  ELSE [JsNull EXCEPT !.k = "num", !.m = FloatPrefix(t).m, !.e = FloatPrefix(t).e]

\* dataStr.split(/\s+/): the pieces between the runs of white space
RECURSIVE split(_)
split(t) ==
  IF \E i \in 1..Len(t) : IsSpace(t[i])
    THEN LET i == CHOOSE j \in 1..Len(t) :
                    IsSpace(t[j]) /\ \A h \in 1..(j - 1) : ~IsSpace(t[h])
         IN <<SubSeq(t, 1, i - 1)>> \o split(SubSeq(t, SkipSpace(t, i), Len(t)))
    ELSE <<t>>

\* ProtocolParser.parseData(dataStr), lines 413-435
parseData(dataStr) ==
  IF dataStr = <<>> THEN JsNull
  ELSE LET spaceValues ==
             [i \in 1..Len(split(dataStr)) |->
                IF parseFloat(split(dataStr)[i]).k = "NaN"
                  THEN [JsNull EXCEPT !.k = "str", !.s = split(dataStr)[i]]
                  ELSE parseFloat(split(dataStr)[i])]
       IN IF Len(spaceValues) > 1
            THEN [JsNull EXCEPT !.k = "list", !.items = spaceValues]
          ELSE IF spaceValues[1].k = "num" THEN spaceValues[1]
          ELSE IF spaceValues[1].s = <<"O", "k">> THEN JsNull
          ELSE spaceValues[1]

\* values.length < n: false for a value that has no length (undefined < n)
shorter(values, n) ==
  CASE values.k = "list" -> Len(values.items) < n
    [] values.k = "str" -> Len(values.s) < n
    [] OTHER -> FALSE

\* values[i]: the item of an array, the character of a string, undefined
\* beyond the end and for a number
item(values, i) ==
  CASE values.k = "list" /\ i + 1 <= Len(values.items) -> values.items[i + 1]
    [] values.k = "str" /\ i + 1 <= Len(values.s) ->
         [JsNull EXCEPT !.k = "str", !.s = <<values.s[i + 1]>>]
    [] OTHER -> [JsNull EXCEPT !.k = "undefined"]

\* values[i] ?? 0
orZero(values, i) ==
  IF item(values, i).k \in {"null", "undefined"} THEN [JsNull EXCEPT !.k = "num"]
  ELSE item(values, i)

\* ProtocolParser.parseWorldPositionV3(values), lines 441-458
parseWorldPositionV3(values) ==
  IF shorter(values, 13) THEN JsNull
  ELSE [mod |-> orZero(values, 0), cf1 |-> orZero(values, 1), cf2 |-> orZero(values, 2),
        cf3 |-> orZero(values, 3), cf4 |-> orZero(values, 4), cf5 |-> orZero(values, 5),
        cf6 |-> orZero(values, 6), x |-> orZero(values, 7), y |-> orZero(values, 8),
        z |-> orZero(values, 9), a |-> orZero(values, 10), b |-> orZero(values, 11),
        c |-> orZero(values, 12)]

\* ProtocolParser.parseJointPosition(values), lines 464-474
parseJointPosition(values) ==
  IF shorter(values, 6) THEN JsNull
  ELSE [j1 |-> orZero(values, 0), j2 |-> orZero(values, 1), j3 |-> orZero(values, 2),
        j4 |-> orZero(values, 3), j5 |-> orZero(values, 4), j6 |-> orZero(values, 5)]

\* ProtocolParser.parseAPOS(values), lines 480-500
parseAPOS(values) ==
  IF shorter(values, 6) THEN JsNull
  ELSE [a1 |-> orZero(values, 0), a2 |-> orZero(values, 1), a3 |-> orZero(values, 2),
        a4 |-> orZero(values, 3), a5 |-> orZero(values, 4), a6 |-> orZero(values, 5),
        a7 |-> orZero(values, 6), a8 |-> orZero(values, 7), a9 |-> orZero(values, 8),
        a10 |-> orZero(values, 9), a11 |-> orZero(values, 10), a12 |-> orZero(values, 11),
        a13 |-> orZero(values, 12), a14 |-> orZero(values, 13), a15 |-> orZero(values, 14),
        a16 |-> orZero(values, 15)]

\* ProtocolParser.parseTool(values), lines 506-527
parseTool(values) ==
  IF shorter(values, 7) THEN JsNull
  ELSE [id |-> orZero(values, 0), x |-> orZero(values, 1), y |-> orZero(values, 2),
        z |-> orZero(values, 3), a |-> orZero(values, 4), b |-> orZero(values, 5),
        c |-> orZero(values, 6), M |-> item(values, 7), Mx |-> item(values, 8),
        My |-> item(values, 9), Mz |-> item(values, 10), Ixx |-> item(values, 11),
        Iyy |-> item(values, 12), Izz |-> item(values, 13), Ixy |-> item(values, 14),
        Ixz |-> item(values, 15), Iyz |-> item(values, 16)]

\* ProtocolParser.parseUserCoord(values), lines 533-544
parseUserCoord(values) ==
  IF shorter(values, 7) THEN JsNull
  ELSE [id |-> orZero(values, 0), x |-> orZero(values, 1), y |-> orZero(values, 2),
        z |-> orZero(values, 3), a |-> orZero(values, 4), b |-> orZero(values, 5),
        c |-> orZero(values, 6)]

\* the result null
NoResponse ==
  [ok |-> FALSE, id |-> -1, success |-> FALSE, error |-> "", type |-> "",
   motionType |-> <<>>, dataStr |-> <<>>, data |-> JsNull]

\* /^\[id\s*=\s*(\d+)\s*;\s*  the common head of failMatch and okMatch: the id
\* digits and the position after the head, or NoMatch
IdHead(t) ==
  IF ~LitAt(t, 1, <<"[", "i", "d">>, TRUE) THEN [ok |-> FALSE, digits |-> <<>>, pos |-> 0]
  ELSE LET q == SkipSpace(t, 4) IN
       IF ~LitAt(t, q, <<"=">>, FALSE) THEN [ok |-> FALSE, digits |-> <<>>, pos |-> 0]
       ELSE LET r == SkipSpace(t, q + 1)
                e == SkipDigits(t, r)
                f == SkipSpace(t, e)
            IN IF e > r /\ LitAt(t, f, <<";">>, FALSE)
                 THEN [ok |-> TRUE, digits |-> SubSeq(t, r, e - 1),
                       pos |-> SkipSpace(t, f + 1)]
                 ELSE [ok |-> FALSE, digits |-> <<>>, pos |-> 0]

\* /^\[id\s*=\s*(\d+)\s*;\s*FAIL\s*\]$/i
failMatch(t) ==
  LET h == IdHead(t) IN
  IF h.ok /\ LitAt(t, h.pos, <<"F", "A", "I", "L">>, TRUE)
          /\ SkipSpace(t, h.pos + 4) = Len(t) /\ t[Len(t)] = "]"
    THEN [ok |-> TRUE, digits |-> h.digits, name |-> <<>>]
    ELSE NoMatch

\* /^\[id\s*=\s*(\d+)\s*;\s*Ok\s*(;.*)?\]$/i: name holds group 2, the data part
okMatch(t) ==
  LET h == IdHead(t) IN
  IF h.ok /\ LitAt(t, h.pos, <<"O", "k">>, TRUE) /\ t[Len(t)] = "]"
    THEN LET g == SkipSpace(t, h.pos + 2) IN
         IF g = Len(t)
           THEN [ok |-> TRUE, digits |-> h.digits, name |-> <<>>]
         ELSE IF g < Len(t) /\ t[g] = ";"
                 /\ \A j \in g..(Len(t) - 1) : t[j] \notin {"\n", "\r"}
           THEN [ok |-> TRUE, digits |-> h.digits, name |-> SubSeq(t, g, Len(t) - 1)]
         ELSE NoMatch
    ELSE NoMatch

\* /^\[(word):\s*(\d+)\]$/i
WordFrameMatch(t, word) ==
  LET m == WordPatternAt(t, 1, word) IN
  IF m.ok /\ SkipDigits(t, SkipSpace(t, Len(word) + 3)) = Len(t) /\ t[Len(t)] = "]"
    THEN m ELSE NoMatch

\* parseResponse with the RobotStop rule reporting the generic failure
parseResponse_StopAsFailure(response) ==
  LET trimmed == trim(response) IN
  IF WordFrameMatch(trimmed, RobotStopWord).ok
    THEN [NoResponse EXCEPT !.ok = TRUE,
                            !.id = parseInt(WordFrameMatch(trimmed, RobotStopWord).digits),
                            !.success = FALSE, !.error = "Command failed",
                            !.type = "ROBOT_STOP"]
  ELSE IF failMatch(trimmed).ok
    THEN [NoResponse EXCEPT !.ok = TRUE, !.id = parseInt(failMatch(trimmed).digits),
                            !.success = FALSE, !.error = "Command failed"]
  ELSE IF okMatch(trimmed).ok
    THEN [NoResponse EXCEPT !.ok = TRUE, !.id = parseInt(okMatch(trimmed).digits),
                            !.success = TRUE]
  ELSE NoResponse

\* ProtocolParser.parseResponse(response); dataStr is the text handed to parseData
parseResponse(response) ==
  LET trimmed == trim(response) IN
  IF failMatch(trimmed).ok
    THEN [NoResponse EXCEPT !.ok = TRUE, !.id = parseInt(failMatch(trimmed).digits),
                            !.success = FALSE, !.error = "Command failed"]
  ELSE IF okMatch(trimmed).ok
    THEN [NoResponse EXCEPT !.ok = TRUE, !.id = parseInt(okMatch(trimmed).digits),
                            !.success = TRUE,
                            !.dataStr =
                               IF Len(okMatch(trimmed).name) > 1
                                 THEN trim(Tail(okMatch(trimmed).name))
                                 ELSE <<>>,
                            !.data =
                               IF Len(okMatch(trimmed).name) > 1
                                 THEN parseData(trim(Tail(okMatch(trimmed).name)))
                                 ELSE JsNull]
  ELSE IF WordFrameMatch(trimmed, FeedMovFinish).ok
    THEN [NoResponse EXCEPT !.ok = TRUE,
                            !.id = parseInt(WordFrameMatch(trimmed, FeedMovFinish).digits),
                            !.success = TRUE, !.type = "MOVE_FINISH",
                            !.motionType = WordFrameMatch(trimmed, FeedMovFinish).name]
  ELSE IF WordFrameMatch(trimmed, ActMovFinish).ok
    THEN [NoResponse EXCEPT !.ok = TRUE,
                            !.id = parseInt(WordFrameMatch(trimmed, ActMovFinish).digits),
                            !.success = TRUE, !.type = "MOVE_FINISH",
                            !.motionType = WordFrameMatch(trimmed, ActMovFinish).name]
  ELSE IF WordFrameMatch(trimmed, RobotStopWord).ok
    THEN [NoResponse EXCEPT !.ok = TRUE,
                            !.id = parseInt(WordFrameMatch(trimmed, RobotStopWord).digits),
                            !.success = FALSE, !.error = "Robot stopped",
                            !.type = "ROBOT_STOP"]
  ELSE IF WordFrameMatch(trimmed, SafeDoorIsOpen).ok
    THEN [NoResponse EXCEPT !.ok = TRUE,
                            !.id = parseInt(WordFrameMatch(trimmed, SafeDoorIsOpen).digits),
                            !.success = FALSE, !.error = "Safety door is open",
                            !.type = "SAFE_DOOR_OPEN"]
  ELSE NoResponse

----------------------------------------------------------------------------
(* The bridge, src/server/index.js: state *)

VARIABLES
  robotSocket,            \* let robotSocket: a socket of sock, 0 for null
  isRobotConnected,       \* let isRobotConnected
  robotConnectAttempted,  \* let robotConnectAttempted
  responseBuffer,         \* let responseBuffer: text
  pendingCommand,         \* let pendingCommand: {id, resolve, reject, timeout} or NoPending
  frontendClient,         \* let frontendClient: a browser socket of ws, 0 for null
  robotEncoding,          \* let robotEncoding
  sock,                   \* every net.Socket the bridge created: its state
  reconnectTimers,        \* the setTimeout(connectRobot, 5000) timers not yet fired
  cmdTimers,              \* the setTimeout(..., COMMAND_TIMEOUT) timers armed
  promise,                \* the promise of each sendToRobotTcpString call
  ws,                     \* every browser socket: its readyState
  crashed,                \* an exception left an event handler: the process is gone
  out,                    \* what the last handler sent (browser messages, socket writes)
  PROTOCOL,               \* const PROTOCOL: 'TCP_STRING' or 'MODBUS_TCP'
  modbusClient,           \* let modbusClient: the socket it was made for, 0 for null
  modbusPollTimer,        \* let modbusPollTimer: an interval of pollTimers, 0 for null
  pollTimers,             \* the setInterval timers of startModbusPolling not cleared
  requests                \* the register reads and writes awaited

bridgeVars ==
  <<robotSocket, isRobotConnected, robotConnectAttempted, responseBuffer,
    pendingCommand, frontendClient, robotEncoding, sock, reconnectTimers,
    cmdTimers, promise, ws, crashed, out, PROTOCOL, modbusClient, modbusPollTimer,
    pollTimers, requests>>

\* the fields of the browser's RobotProtocolClient, src/src/App.vue lines 1072-1076
VARIABLES
  socket,                 \* private socket: 0 for null, 1 for the WebSocket
  isConnected,            \* private isConnected
  pendingCommands,        \* private pendingCommands: id -> the sendCommand call pending
  clientTimers,           \* the setTimeout timers of sendCommand not yet fired
  clientPromise,          \* the promise of each sendCommand call
  readyState,             \* the readyState of the WebSocket the client created
  sent                    \* what the last handler sent on the WebSocket

clientVars ==
  <<socket, isConnected, pendingCommands, clientTimers, clientPromise,
    readyState, sent>>

\* the controller's byte stream, for the frame extraction of lines 177-251
VARIABLES
  stream,                 \* the bytes the controller sends on the connection
  pos,                    \* how many of them the 'data' events have delivered
  dispatched              \* the frames handed to handleRobotResponse so far

wireVars == <<stream, pos, dispatched>>

\* one call of a function of the protocol library
VARIABLES
  libCall,                \* the function called and its arguments
  libResult               \* what the call returned

fnVars == <<libCall, libResult>>

\* robotService, src/src/services/robotState.ts, and the id counter of
\* CommandBuilder, src/src/App.vue line 551
VARIABLES
  logs,                   \* state.logs: the entries, each with the number of its append
  logged,                 \* how many entries have been appended so far
  CommandBuilder_commandId   \* the static field commandId of CommandBuilder

\* robotService: its WebSocket objects and its sendCommand calls
VARIABLES
  serviceWs,              \* let ws: the socket the service holds, 0 for null
  wsState,                \* readyState of every WebSocket the service created
  stateIsConnected,       \* state.isConnected
  connectionTimeout,      \* sockets whose 10 s connection timer is armed
  serviceCalls,           \* the sendCommand calls: promise, listener, timer
  serviceSent             \* what the last handler sent to the bridge

channelVars ==
  <<serviceWs, wsState, stateIsConnected, connectionTimeout, serviceCalls, serviceSent>>

serviceVars == <<logs, logged, CommandBuilder_commandId, channelVars>>

\* const COMMAND_TIMEOUT = 5000
COMMAND_TIMEOUT == 5000

Sockets == 1..MaxSockets
Calls == 1..MaxCmds
WsIds == 1..MaxWs
Sessions == 1..MaxSessions

\* pendingCommand = null
NoPending == [id |-> -1, call |-> 0, timeout |-> 0]

NoPromise == [st |-> "none", id |-> -1, ws |-> 0, val |-> <<>>, err |-> "", n |-> 0]

\* the program state as one value, so that a handler can call another
St ==
  [robotSocket |-> robotSocket, isRobotConnected |-> isRobotConnected,
   robotConnectAttempted |-> robotConnectAttempted,
   responseBuffer |-> responseBuffer, pendingCommand |-> pendingCommand,
   frontendClient |-> frontendClient, robotEncoding |-> robotEncoding,
   sock |-> sock, reconnectTimers |-> reconnectTimers, cmdTimers |-> cmdTimers,
   promise |-> promise, ws |-> ws, crashed |-> crashed, out |-> <<>>,
   PROTOCOL |-> PROTOCOL, modbusClient |-> modbusClient,
   modbusPollTimer |-> modbusPollTimer, pollTimers |-> pollTimers,
   requests |-> requests]

\* the state a handler leaves
Assigns(s) ==
  \E v \in {s} :
    /\ robotSocket' = v.robotSocket
    /\ isRobotConnected' = v.isRobotConnected
    /\ robotConnectAttempted' = v.robotConnectAttempted
    /\ responseBuffer' = v.responseBuffer
    /\ pendingCommand' = v.pendingCommand
    /\ frontendClient' = v.frontendClient
    /\ robotEncoding' = v.robotEncoding
    /\ sock' = v.sock
    /\ reconnectTimers' = v.reconnectTimers
    /\ cmdTimers' = v.cmdTimers
    /\ promise' = v.promise
    /\ ws' = v.ws
    /\ crashed' = v.crashed
    /\ out' = v.out
    /\ PROTOCOL' = v.PROTOCOL
    /\ modbusClient' = v.modbusClient
    /\ modbusPollTimer' = v.modbusPollTimer
    /\ pollTimers' = v.pollTimers
    /\ requests' = v.requests

Becomes(s) == Assigns(s) /\ UNCHANGED <<clientVars, wireVars, fnVars, serviceVars>>

----------------------------------------------------------------------------
(* The bridge: what a handler sends *)

WsMsg(w, type, text, connected) ==
  [ch |-> "ws", to |-> w, type |-> type, text |-> text, connected |-> connected,
   error |-> ""]

\* ws.send(...) on browser socket w: delivered while w is OPEN
wsSend(s, w, type, text, connected) ==
  IF s.ws[w] = "open"
    THEN [s EXCEPT !.out = Append(@, WsMsg(w, type, text, connected))]
    ELSE s

\* if (frontendClient && frontendClient.readyState === 1) frontendClient.send(...)
sendToFrontend(s, type, text, connected) ==
  IF s.frontendClient # 0 /\ s.ws[s.frontendClient] = "open"
    THEN wsSend(s, s.frontendClient, type, text, connected)
    ELSE s

\* robotSocket.write(text); on robotSocket = null the TypeError leaves the handler
robotSocketWrite(s, text) ==
  IF s.robotSocket = 0
    THEN [s EXCEPT !.crashed = TRUE]
    ELSE [s EXCEPT !.out = Append(@,
            [ch |-> "robot", to |-> s.robotSocket, type |-> "WRITE",
             text |-> text, connected |-> FALSE, error |-> ""])]

\* resolve(value) of the promise of call k
resolve(s, k, value) ==
  IF s.promise[k].st = "pending"
    THEN [s EXCEPT !.promise[k].st = "resolved", !.promise[k].val = value,
                   !.promise[k].n = @ + 1]
    ELSE [s EXCEPT !.promise[k].n = @ + 1]

\* reject with the COMMAND_ERROR sent to the session target, not to the socket
\* of the handler that awaits the promise
reject_ToSessionTarget(s, k, err) ==
  IF s.promise[k].st = "pending"
    THEN LET s1 == [s EXCEPT !.promise[k].st = "rejected", !.promise[k].err = err,
                             !.promise[k].n = @ + 1]
             w == s.frontendClient
         IN IF w # 0 /\ s1.ws[w] = "open"
              THEN [s1 EXCEPT !.out = Append(@,
                      [WsMsg(w, "COMMAND_ERROR", <<>>, FALSE) EXCEPT !.error = err])]
              ELSE s1
    ELSE [s EXCEPT !.promise[k].n = @ + 1]

\* reject(new Error(err)) of the promise of call k; the ROBOT_COMMAND handler
\* awaiting it then sends COMMAND_ERROR on its own browser socket
reject(s, k, err) ==
  IF s.promise[k].st = "pending"
    THEN LET s1 == [s EXCEPT !.promise[k].st = "rejected", !.promise[k].err = err,
                             !.promise[k].n = @ + 1]
             w == s.promise[k].ws
         IN IF s1.ws[w] = "open"
              THEN [s1 EXCEPT !.out = Append(@,
                      [WsMsg(w, "COMMAND_ERROR", <<>>, FALSE) EXCEPT !.error = err])]
              ELSE s1
    ELSE [s EXCEPT !.promise[k].n = @ + 1]

----------------------------------------------------------------------------
(* The bridge: the controller's bytes.  A chunk is the bytes of a text in one *)
(* encoding: [enc |-> "ascii" or "utf16le", text |-> ...].                    *)

\* U+0000, which the 0x00 bytes of UTF-16LE text decode to as UTF-8 or GBK
NUL == "NUL"
\* a character above U+00FF, which two ASCII bytes decode to as UTF-16LE
WIDE == "WIDE"

RECURSIVE WithNuls(_)
WithNuls(t) ==
  IF t = <<>> THEN <<>> ELSE <<t[1], NUL>> \o WithNuls(Tail(t))

\* data.toString('utf8')
toStringUtf8(data) ==
  IF data.enc = "ascii" THEN data.text ELSE WithNuls(data.text)

\* data.toString('utf16le'): two bytes a character, an odd last byte dropped
toStringUtf16le(data) ==
  IF data.enc = "utf16le" THEN data.text
  ELSE [i \in 1..(Len(data.text) \div 2) |-> WIDE]

\* iconv.decode(data, 'gbk'): bytes below 0x80 decode to themselves; it does not throw
iconvDecodeGbk(data) ==
  IF data.enc = "ascii" THEN data.text ELSE WithNuls(data.text)

\* data.length === 1 && data[0] === 0x20
IsHeartbeat(data) == data.enc = "ascii" /\ data.text = <<" ">>

\* /[�]/.test(chunk) || chunk.includes(''): every string includes ''
InvalidMarker(chunk) ==
  \/ includes(chunk, "\\uFFFD")
  \/ \E i \in 0..Len(chunk) : SubSeq(chunk, i + 1, i) = <<>>

\* lines 190-225: the text of the chunk and the encoding the connection keeps
DecodeChunk(enc, data) ==
  CASE enc = "utf8" ->
         IF InvalidMarker(toStringUtf8(data))
           THEN IF /\ includes(toStringUtf16le(data), "[")
                   /\ includes(toStringUtf16le(data), ";")
                  THEN [chunk |-> toStringUtf16le(data), enc |-> "utf16le"]
                  ELSE [chunk |-> iconvDecodeGbk(data), enc |-> "gbk"]
           ELSE [chunk |-> toStringUtf8(data), enc |-> "utf8"]
    [] enc = "hex" ->
         [chunk |-> <<"[", "E", "n", "c", "o", "d", "e", "d", " ", "d", "a", "t", "a", "]">>,
          enc |-> "hex"]
    [] enc = "gbk" -> [chunk |-> iconvDecodeGbk(data), enc |-> "gbk"]
    [] OTHER -> [chunk |-> toStringUtf16le(data), enc |-> enc]

----------------------------------------------------------------------------
(* The bridge: handlers *)

\* handleRobotResponse without its clearTimeout(pendingCommand.timeout)
handleRobotResponse_KeepsTimer(s, response) ==
  LET im == idMatch(response)
      mm == motionFinishMatch(response)
      responseId == IF im.ok THEN parseInt(im.digits)
                    ELSE IF mm.ok THEN parseInt(mm.digits)
                    ELSE -1
      s1 == IF s.pendingCommand # NoPending /\ responseId = s.pendingCommand.id
              THEN [resolve(s, s.pendingCommand.call, response)
                      EXCEPT !.pendingCommand = NoPending]
              ELSE s
  IN sendToFrontend(s1, "ROBOT_RESPONSE", response, FALSE)

\* handleRobotResponse without its comparison responseId === pendingCommand.id
handleRobotResponse_AnyId(s, response) ==
  LET s1 == IF s.pendingCommand # NoPending
              THEN [resolve([s EXCEPT !.cmdTimers = @ \ {s.pendingCommand.timeout}],
                            s.pendingCommand.call, response)
                      EXCEPT !.pendingCommand = NoPending]
              ELSE s
  IN sendToFrontend(s1, "ROBOT_RESPONSE", response, FALSE)

\* handleRobotResponse(response), lines 253-277
handleRobotResponse(s, response) ==
  LET im == idMatch(response)
      mm == motionFinishMatch(response)
      responseId == IF im.ok THEN parseInt(im.digits)
                    ELSE IF mm.ok THEN parseInt(mm.digits)
                    ELSE -1
      s1 == IF s.pendingCommand # NoPending /\ responseId = s.pendingCommand.id
              THEN [resolve([s EXCEPT !.cmdTimers = @ \ {s.pendingCommand.timeout}],
                            s.pendingCommand.call, response)
                      EXCEPT !.pendingCommand = NoPending]
              ELSE s
  IN sendToFrontend(s1, "ROBOT_RESPONSE", response, FALSE)

\* the while loop of processResponseBuffer over the matches
RECURSIVE dispatchFrames(_, _)
dispatchFrames(s, frames) ==
  IF frames = <<>> THEN s
  ELSE dispatchFrames(handleRobotResponse(s, Head(frames)), Tail(frames))

\* processResponseBuffer(), lines 236-251
processResponseBuffer(s) ==
  LET s1 == dispatchFrames(s, FrameMatches(s.responseBuffer, 1))
      lastCompleteResponse == lastIndexOf(s1.responseBuffer, "]")
  IN IF lastCompleteResponse >= 1
       THEN [s1 EXCEPT !.responseBuffer =
               SubSeq(@, lastCompleteResponse + 1, Len(@))]
       ELSE s1

\* handleTcpStringData(data), lines 177-234
handleTcpStringData(s, data) ==
  IF IsHeartbeat(data) THEN robotSocketWrite(s, <<" ">>)
  ELSE LET d == DecodeChunk(s.robotEncoding, data)
       IN processResponseBuffer(
            [s EXCEPT !.robotEncoding = d.enc,
                      !.responseBuffer = @ \o d.chunk])

\* lines 190-225 when iconv.decode(data, 'gbk') throws: the catch blocks of
\* lines 207-211 and 220-222
DecodeChunkGbkThrows(enc, data) ==
  CASE enc = "utf8" /\ InvalidMarker(toStringUtf8(data))
         /\ ~(includes(toStringUtf16le(data), "[") /\ includes(toStringUtf16le(data), ";")) ->
         [chunk |-> <<"[", "E", "n", "c", "o", "d", "e", "d", " ", "d", "a", "t", "a", "]">>,
          enc |-> "hex"]
    [] enc = "gbk" ->
         [chunk |-> <<"[", "G", "B", "K", " ", "d", "e", "c", "o", "d", "e", " ",
                      "e", "r", "r", "o", "r", "]">>,
          enc |-> "gbk"]
    [] OTHER -> DecodeChunk(enc, data)

\* handleTcpStringData(data) with iconv.decode throwing
handleTcpStringData_GbkThrows(s, data) ==
  IF IsHeartbeat(data) THEN robotSocketWrite(s, <<" ">>)
  ELSE LET d == DecodeChunkGbkThrows(s.robotEncoding, data)
       IN processResponseBuffer(
            [s EXCEPT !.robotEncoding = d.enc,
                      !.responseBuffer = @ \o d.chunk])

\* handleTcpStringError(err), lines 279-293
handleTcpStringError(s) ==
  LET s1 == [s EXCEPT !.isRobotConnected = FALSE, !.robotSocket = 0]
      s2 == sendToFrontend(s1, "STATUS", <<>>, FALSE)
  IN [s2 EXCEPT !.reconnectTimers = @ + 1]

\* handleTcpStringClose(), lines 295-310
handleTcpStringClose(s) ==
  LET s1 == [s EXCEPT !.isRobotConnected = FALSE, !.robotSocket = 0,
                      !.robotEncoding = "utf8"]
      s2 == sendToFrontend(s1, "STATUS", <<>>, FALSE)
  IN [s2 EXCEPT !.reconnectTimers = @ + 1]

\* new net.Socket(): the first socket slot not in use
newSocket(s) == CHOOSE n \in Sockets : s.sock[n] = "free" /\ \A m \in 1..(n - 1) : s.sock[m] # "free"

\* initTcpString(), lines 159-175: the socket starts connecting
initTcpString(s) ==
  [s EXCEPT !.robotSocket = newSocket(s), !.sock[newSocket(s)] = "connecting"]

\* robotSocket.destroy(): the socket is gone, its 'close' event is still to come
socketDestroy(s, n) ==
  IF s.sock[n] \in {"connecting", "connected"}
    THEN [s EXCEPT !.sock[n] = "destroyed"]
    ELSE s

\* initModbus(), lines 51-72: the socket starts connecting
initModbus(s) ==
  [s EXCEPT !.robotSocket = newSocket(s), !.modbusClient = newSocket(s),
            !.sock[newSocket(s)] = "connecting"]

\* startModbusPolling(), lines 74-96, called by socket n's connect callback
startModbusPolling(s, n) ==
  [s EXCEPT !.pollTimers = (IF s.modbusPollTimer # 0 THEN @ \ {s.modbusPollTimer} ELSE @)
                             \cup {n},
            !.modbusPollTimer = n]

\* the callback of robotSocket.connect, lines 55-64, of socket n; the read of
\* testModbusConnection is only logged
onModbusConnect(s, n) == startModbusPolling([s EXCEPT !.isRobotConnected = TRUE], n)

\* handleModbusError(err), lines 116-135
handleModbusError(s) ==
  LET s1 == [s EXCEPT !.isRobotConnected = FALSE, !.robotSocket = 0, !.modbusClient = 0]
      s2 == sendToFrontend(s1, "STATUS", <<>>, FALSE)
  IN [s2 EXCEPT !.reconnectTimers = @ + 1]

\* handleModbusClose(), lines 137-156, with stopModbusPolling(), lines 98-103
handleModbusClose(s) ==
  LET s1 == [s EXCEPT !.isRobotConnected = FALSE, !.robotSocket = 0, !.modbusClient = 0,
                      !.pollTimers = IF s.modbusPollTimer # 0
                                       THEN @ \ {s.modbusPollTimer} ELSE @,
                      !.modbusPollTimer = 0]
      s2 == sendToFrontend(s1, "STATUS", <<>>, FALSE)
  IN [s2 EXCEPT !.reconnectTimers = @ + 1]

\* the setInterval callback of startModbusPolling, lines 77-95, up to its await
onPollTick(s) ==
  IF ~s.isRobotConnected \/ s.modbusClient = 0 THEN s
  ELSE [s EXCEPT !.requests = Append(@, [type |-> "POLL", client |-> s.modbusClient, ws |-> 0])]

\* ws.on('message') with WRITE_REGISTER or READ_REGISTER from browser socket
\* w, lines 442-478, up to its await; modbusClient.writeSingleRegister on null
\* throws a TypeError inside the try
onRegisterMessage(s, w, type) ==
  IF s.modbusClient = 0
    THEN wsSend(s, w, "ERROR",
                IF type = "READ_REGISTER" THEN <<"M", "o", "d", "b", "u", "s", " ", "c", "l", "i", "e", "n", "t", " ", "n", "o", "t", " ", "r", "e", "a", "d", "y">>
                ELSE <<"C", "a", "n", "n", "o", "t", " ", "r", "e", "a", "d", " ", "p", "r", "o", "p", "e", "r", "t", "i", "e", "s", " ", "o", "f", " ", "n", "u", "l", "l">>,
                FALSE)
    ELSE [s EXCEPT !.requests = Append(@, [type |-> type, client |-> s.modbusClient, ws |-> w])]

\* afterAwait with the catch of the WRITE_REGISTER handler left empty
afterAwait_DropsWriteError(s, r, ok) ==
  CASE r.type = "POLL" -> IF ok THEN sendToFrontend(s, "REGISTER_DATA", <<>>, FALSE) ELSE s
    [] r.type = "WRITE_REGISTER" -> s
    [] r.type = "READ_REGISTER" ->
         wsSend(s, r.ws, IF ok THEN "REGISTER_DATA" ELSE "ERROR", <<>>, FALSE)

\* afterAwait with a failed poll read handled as a connection error
afterAwait_PollFailureDisconnects(s, r, ok) ==
  CASE r.type = "POLL" -> IF ok THEN sendToFrontend(s, "REGISTER_DATA", <<>>, FALSE)
                          ELSE handleModbusError(s)
    [] r.type = "WRITE_REGISTER" -> IF ok THEN s ELSE wsSend(s, r.ws, "ERROR", <<>>, FALSE)
    [] r.type = "READ_REGISTER" ->
         wsSend(s, r.ws, IF ok THEN "REGISTER_DATA" ELSE "ERROR", <<>>, FALSE)

\* the rest of the handler that awaits request r, when the read or write has
\* succeeded (ok) or has thrown
afterAwait(s, r, ok) ==
  CASE r.type = "POLL" -> IF ok THEN sendToFrontend(s, "REGISTER_DATA", <<>>, FALSE) ELSE s
    [] r.type = "WRITE_REGISTER" -> IF ok THEN s ELSE wsSend(s, r.ws, "ERROR", <<>>, FALSE)
    [] r.type = "READ_REGISTER" ->
         wsSend(s, r.ws, IF ok THEN "REGISTER_DATA" ELSE "ERROR", <<>>, FALSE)

\* connectRobot(), lines 314-329
connectRobot(s) ==
  IF s.robotConnectAttempted /\ s.isRobotConnected THEN s
  ELSE LET s1 == [s EXCEPT !.robotConnectAttempted = TRUE]
           s2 == IF s1.robotSocket # 0 THEN socketDestroy(s1, s1.robotSocket) ELSE s1
       IN IF s.PROTOCOL = "MODBUS_TCP" THEN initModbus(s2) ELSE initTcpString(s2)

\* the callback of robotSocket.connect, lines 162-170
InitCommand ==
  <<"[", "g", "e", "t", "R", "o", "b", "o", "t", "R", "u", "n", "S", "t", "a", "t",
    "u", "s", "_", "I", "F", "a", "c", "e", "(", ")", ";", " ", "i", "d", " ", "=",
    " ", "9", "9", "9", "]">>

onConnect(s) ==
  robotSocketWrite([s EXCEPT !.isRobotConnected = TRUE], InitCommand)

\* the timeout callback without its pendingCommand = null
onCommandTimeout_KeepsPending(s) ==
  IF s.pendingCommand # NoPending
    THEN reject(s, s.pendingCommand.call, "Command timeout")
    ELSE s

\* the timeout callback of sendToRobotTcpString, lines 355-361
onCommandTimeout(s) ==
  IF s.pendingCommand # NoPending
    THEN [reject(s, s.pendingCommand.call, "Command timeout")
            EXCEPT !.pendingCommand = NoPending]
    ELSE s

\* sendToRobotTcpString with the test for the id made after the pending
\* command has been dropped
sendToRobotTcpString_DropsBeforeIdTest(s, k, w, command) ==
  LET s0 == [s EXCEPT !.promise[k] =
               [NoPromise EXCEPT !.st = "pending", !.ws = w]]
      m == commandIdMatch(command)
      s1 == IF s0.pendingCommand # NoPending
              THEN [s0 EXCEPT !.cmdTimers = @ \ {s0.pendingCommand.timeout},
                              !.pendingCommand = NoPending]
              ELSE s0
  IN IF s0.robotSocket = 0 \/ ~s0.isRobotConnected
       THEN reject(s0, k, "Not connected to robot")
     ELSE IF ~m.ok
       THEN reject(s1, k, "Invalid command format - missing ID")
     ELSE LET commandId == parseInt(m.digits)
              s2 == robotSocketWrite(s1, command)
          IN [s2 EXCEPT !.cmdTimers = @ \cup {k},
                        !.promise[k].id = commandId,
                        !.pendingCommand =
                           [id |-> commandId, call |-> k, timeout |-> k]]

\* sendToRobotTcpString without the clearTimeout of the command it replaces
sendToRobotTcpString_KeepsOldTimer(s, k, w, command) ==
  LET s0 == [s EXCEPT !.promise[k] =
               [NoPromise EXCEPT !.st = "pending", !.ws = w]]
      m == commandIdMatch(command)
  IN IF s0.robotSocket = 0 \/ ~s0.isRobotConnected
       THEN reject(s0, k, "Not connected to robot")
     ELSE IF ~m.ok
       THEN reject(s0, k, "Invalid command format - missing ID")
     ELSE LET commandId == parseInt(m.digits)
              s2 == robotSocketWrite([s0 EXCEPT !.pendingCommand = NoPending], command)
          IN [s2 EXCEPT !.cmdTimers = @ \cup {k},
                        !.promise[k].id = commandId,
                        !.pendingCommand =
                           [id |-> commandId, call |-> k, timeout |-> k]]

\* sendToRobotTcpString(command), lines 331-370, as call k made for browser socket w
sendToRobotTcpString(s, k, w, command) ==
  LET s0 == [s EXCEPT !.promise[k] =
               [NoPromise EXCEPT !.st = "pending", !.ws = w]]
      m == commandIdMatch(command)
  IN IF s0.robotSocket = 0 \/ ~s0.isRobotConnected
       THEN reject(s0, k, "Not connected to robot")
     ELSE IF ~m.ok
       THEN reject(s0, k, "Invalid command format - missing ID")
     ELSE LET commandId == parseInt(m.digits)
              s1 == IF s0.pendingCommand # NoPending
                      THEN [s0 EXCEPT !.cmdTimers = @ \ {s0.pendingCommand.timeout},
                                      !.pendingCommand = NoPending]
                      ELSE s0
              s2 == robotSocketWrite(s1, command)
          IN [s2 EXCEPT !.cmdTimers = @ \cup {k},
                        !.promise[k].id = commandId,
                        !.pendingCommand =
                           [id |-> commandId, call |-> k, timeout |-> k]]

----------------------------------------------------------------------------
(* The string-only bridge of src/unnamed/part_000, over the same state *)

\* the callback of robotSocket.connect, part_000 lines 107-109: it logs, and
\* assigns nothing
onConnect_part000(s) == s

\* connectRobot(), part_000 lines 96-105
connectRobot_part000(s) ==
  IF s.robotConnectAttempted /\ s.isRobotConnected THEN s
  ELSE LET s1 == [s EXCEPT !.robotConnectAttempted = TRUE]
           s2 == IF s1.robotSocket # 0 THEN socketDestroy(s1, s1.robotSocket) ELSE s1
       IN [s2 EXCEPT !.robotSocket = newSocket(s2), !.sock[newSocket(s2)] = "connecting"]

\* robotSocket.on('close'), part_000 lines 152-173
onClose_part000(s) ==
  LET s1 == [s EXCEPT !.isRobotConnected = FALSE, !.robotSocket = 0]
      s2 == sendToFrontend(s1, "STATUS", <<>>, FALSE)
      s3 == IF s2.pendingCommand # NoPending
              THEN [reject(s2, s2.pendingCommand.call, "Robot connection closed")
                      EXCEPT !.cmdTimers = @ \ {s2.pendingCommand.timeout},
                             !.pendingCommand = NoPending]
              ELSE s2
  IN [s3 EXCEPT !.reconnectTimers = @ + 1]

\* sendToRobot(command), part_000 lines 240-281, as call k made for browser
\* socket w
sendToRobot(s, k, w, command) ==
  LET s0 == [s EXCEPT !.promise[k] =
               [NoPromise EXCEPT !.st = "pending", !.ws = w]]
      m == clientIdMatch(command)
  IN IF s0.robotSocket = 0 \/ ~s0.isRobotConnected
       THEN reject(s0, k, "Not connected to robot")
     ELSE IF ~m.ok
       THEN reject(s0, k, "Invalid command format - missing ID")
     ELSE LET commandId == parseInt(m.digits)
              s1 == IF s0.pendingCommand # NoPending
                      THEN [s0 EXCEPT !.cmdTimers = @ \ {s0.pendingCommand.timeout},
                                      !.pendingCommand = NoPending]
                      ELSE s0
              s2 == robotSocketWrite(s1, command)
          IN [s2 EXCEPT !.cmdTimers = @ \cup {k},
                        !.promise[k].id = commandId,
                        !.pendingCommand =
                           [id |-> commandId, call |-> k, timeout |-> k]]

----------------------------------------------------------------------------
(* The bridge: what the environment sends *)

GetCurJPos == <<"G", "e", "t", "C", "u", "r", "J", "P", "o", "s", "(", ")">>

\* CommandBuilder.formatCommand(command, id): `[${command};id=${id}]`
formatCommand(command, id) ==
  <<"[">> \o command \o <<";", "i", "d", "=">> \o NumStr(id) \o <<"]">>

\* the ids the commands and frames of the model carry
CmdIds == {7, 8}

\* message.command of a ROBOT_COMMAND message: well-formed, or without an id
Commands ==
  {formatCommand(GetCurJPos, n) : n \in CmdIds} \cup {<<"[">> \o GetCurJPos \o <<"]">>}

IdEq == <<"[", "i", "d", " ", "=", " ">>

\* "[id = N; Ok; 10.0 20.0]"
OkFrame(n) ==
  IdEq \o NumStr(n) \o <<";", " ", "O", "k", ";", " ", "1", "0", ".", "0", " ", "2", "0", ".", "0", "]">>

\* "[id = N; FAIL]"
FailFrame(n) == IdEq \o NumStr(n) \o <<";", " ", "F", "A", "I", "L", "]">>

\* "[RobotStop: N]", "[SafeDoorIsOpen: N]", "[FeedMovFinish: N]"
EventFrame(word, n) == <<"[">> \o word \o <<":", " ">> \o NumStr(n) \o <<"]">>

\* a frame no rule of the protocol recognises
OtherFrame == <<"[", "h", "e", "l", "l", "o", "]">>

\* the frames the controller sends
Frames ==
  {OkFrame(n) : n \in CmdIds}
    \cup {FailFrame(7), EventFrame(RobotStopWord, 7), EventFrame(SafeDoorIsOpen, 7),
          EventFrame(FeedMovFinish, 7), OtherFrame}

Heartbeat == [enc |-> "ascii", text |-> <<" ">>]

\* the chunks the controller sends: a frame each, or the heartbeat byte
Chunks == {[enc |-> "ascii", text |-> f] : f \in Frames} \cup {Heartbeat}

\* the chunks of the correlator's specification
CorrChunks ==
  {[enc |-> "ascii", text |-> f] :
     f \in {OkFrame(7), OkFrame(8), FailFrame(7), EventFrame(RobotStopWord, 7)}}
    \cup {Heartbeat}

----------------------------------------------------------------------------
(* The bridge: Init and the events of the event loop *)

\* sockets not yet closed plus reconnect timers not yet fired
Tokens == reconnectTimers + Cardinality({n \in Sockets : sock[n] # "free"})

\* the module's top level, lines 33-46, and the connectRobot() of line 503
InitProtocol(protocol) ==
  LET s == connectRobot(
             [PROTOCOL |-> protocol, modbusClient |-> 0, modbusPollTimer |-> 0,
              pollTimers |-> {}, requests |-> <<>>,
              robotSocket |-> 0, isRobotConnected |-> FALSE,
              robotConnectAttempted |-> FALSE, responseBuffer |-> <<>>,
              pendingCommand |-> NoPending, frontendClient |-> 0,
              robotEncoding |-> "utf8", sock |-> [n \in Sockets |-> "free"],
              reconnectTimers |-> 0, cmdTimers |-> {},
              promise |-> [k \in Calls |-> NoPromise],
              ws |-> [w \in WsIds \cup Sessions |-> "none"], crashed |-> FALSE, out |-> <<>>])
  IN /\ robotSocket = s.robotSocket
     /\ isRobotConnected = s.isRobotConnected
     /\ robotConnectAttempted = s.robotConnectAttempted
     /\ responseBuffer = s.responseBuffer
     /\ pendingCommand = s.pendingCommand
     /\ frontendClient = s.frontendClient
     /\ robotEncoding = s.robotEncoding
     /\ sock = s.sock
     /\ reconnectTimers = s.reconnectTimers
     /\ cmdTimers = s.cmdTimers
     /\ promise = s.promise
     /\ ws = s.ws
     /\ crashed = s.crashed
     /\ out = s.out
     /\ PROTOCOL = s.PROTOCOL
     /\ modbusClient = s.modbusClient
     /\ modbusPollTimer = s.modbusPollTimer
     /\ pollTimers = s.pollTimers
     /\ requests = s.requests

\* ROBOT_PORT = 5000: PROTOCOL = 'TCP_STRING'
InitBridge == InitProtocol("TCP_STRING")

\* socket n connects: the callback of robotSocket.connect runs
SocketConnect(n) ==
  /\ ~crashed
  /\ sock[n] = "connecting"
  /\ Becomes(IF PROTOCOL = "MODBUS_TCP"
               THEN onModbusConnect([St EXCEPT !.sock[n] = "connected"], n)
               ELSE onConnect([St EXCEPT !.sock[n] = "connected"]))

\* socket n fails (refused, timed out, reset).  net.Socket emits 'error' and
\* then 'close' from one tick of the event loop, so the two handlers run back
\* to back and no other event comes between them.
SocketError(n) ==
  /\ ~crashed
  /\ sock[n] \in {"connecting", "connected"}
  /\ Tokens < MaxSockets
  /\ Becomes(IF PROTOCOL = "MODBUS_TCP"
               THEN handleModbusClose(handleModbusError([St EXCEPT !.sock[n] = "free"]))
               ELSE handleTcpStringClose(
                      handleTcpStringError([St EXCEPT !.sock[n] = "free"])))

\* the 'close' event of socket n alone: after destroy(), or because the
\* controller closed the connection
SocketClose(n) ==
  /\ ~crashed
  /\ sock[n] \in {"destroyed", "connected"}
  /\ Becomes(IF PROTOCOL = "MODBUS_TCP"
               THEN handleModbusClose([St EXCEPT !.sock[n] = "free"])
               ELSE handleTcpStringClose([St EXCEPT !.sock[n] = "free"]))

\* the 'data' event of socket n
SocketData(n, data) ==
  /\ ~crashed
  /\ sock[n] = "connected"
  /\ Becomes(handleTcpStringData(St, data))

\* socket n delivers a chunk that iconv.decode throws on
SocketDataGbkThrows(n, data) ==
  /\ ~crashed
  /\ sock[n] = "connected"
  /\ Becomes(handleTcpStringData_GbkThrows(St, data))

\* a setTimeout(connectRobot, 5000) timer fires
ReconnectTimer ==
  /\ ~crashed
  /\ reconnectTimers > 0
  /\ Becomes(connectRobot([St EXCEPT !.reconnectTimers = @ - 1]))

\* the COMMAND_TIMEOUT timer armed by call k fires
CommandTimer(k) ==
  /\ ~crashed
  /\ k \in cmdTimers
  /\ Becomes(onCommandTimeout([St EXCEPT !.cmdTimers = @ \ {k}]))

\* wss.on('connection'), lines 373-385
WsConnection(w) ==
  /\ ~crashed
  /\ ws[w] = "none"
  /\ \A v \in 1..(w - 1) : ws[v] # "none"
  /\ LET s1 == [St EXCEPT !.ws[w] = "open", !.frontendClient = w]
     IN Becomes(wsSend(s1, w, "STATUS", <<>>, s1.isRobotConnected))

\* browser socket w starts closing: its readyState is no longer OPEN
WsClosing(w) ==
  /\ ~crashed
  /\ ws[w] = "open"
  /\ Becomes([St EXCEPT !.ws[w] = "closing"])

\* ws.on('close') and ws.on('error'), lines 387-395
WsClose(w) ==
  /\ ~crashed
  /\ ws[w] \in {"open", "closing"}
  /\ Becomes([St EXCEPT !.ws[w] = "closed", !.frontendClient = 0])

\* the CONNECT handler calling connectRobot() whatever the connection state,
\* with the attempt flag cleared
WsConnectMessage_AlwaysConnects(w) ==
  /\ ~crashed
  /\ ws[w] = "open"
  /\ Tokens < MaxSockets
  /\ LET s1 == wsSend(St, w, "STATUS", <<>>, isRobotConnected)
     IN Becomes(connectRobot([s1 EXCEPT !.robotConnectAttempted = FALSE]))

\* ws.on('message') with a CONNECT message, lines 403-420
WsConnectMessage(w) ==
  /\ ~crashed
  /\ ws[w] = "open"
  /\ isRobotConnected \/ Tokens < MaxSockets
  /\ LET s1 == wsSend(St, w, "STATUS", <<>>, isRobotConnected)
     IN Becomes(IF ~s1.isRobotConnected THEN connectRobot(s1) ELSE s1)

\* ws.on('message') with a ROBOT_COMMAND message, lines 422-433
WsRobotCommand(w, command) ==
  /\ ~crashed
  /\ ws[w] = "open"
  /\ \E k \in Calls :
       /\ promise[k].st = "none"
       /\ \A j \in 1..(k - 1) : promise[j].st # "none"
       /\ Becomes(sendToRobotTcpString(St, k, w, command))

\* the heartbeat callback without its test of isRobotConnected
HeartbeatTimer_Unconditional ==
  /\ ~crashed
  /\ frontendClient # 0
  /\ Becomes(wsSend(St, frontendClient, "HEARTBEAT", <<>>, TRUE))

\* the setInterval callback of lines 491-499
HeartbeatTimer ==
  /\ ~crashed
  /\ isRobotConnected
  /\ frontendClient # 0
  /\ Becomes(wsSend(St, frontendClient, "HEARTBEAT", <<>>, TRUE))

\* the interval timer t of startModbusPolling ticks
PollTick(t) ==
  /\ ~crashed
  /\ t \in pollTimers
  /\ Len(requests) < MaxRequests
  /\ Becomes(onPollTick(St))

\* ws.on('message') with a WRITE_REGISTER or READ_REGISTER message
WsRegisterMessage(w, type) ==
  /\ ~crashed
  /\ PROTOCOL = "MODBUS_TCP"
  /\ ws[w] = "open"
  /\ Len(requests) < MaxRequests
  /\ Becomes(onRegisterMessage(St, w, type))

\* the read or write of requests[i] ends: with a response, which takes the
\* socket of its client connected, or with an error (exception response,
\* timeout, socket not connected)
ModbusReply(i, ok) ==
  /\ ~crashed
  /\ i \in 1..Len(requests)
  /\ ok => sock[requests[i].client] = "connected"
  /\ Becomes(afterAwait(
       [St EXCEPT !.requests = SubSeq(@, 1, i - 1) \o SubSeq(@, i + 1, Len(@))],
       requests[i], ok))

Next ==
  \/ \E n \in Sockets : SocketConnect(n)
  \/ \E n \in Sockets : SocketError(n)
  \/ \E n \in Sockets : SocketClose(n)
  \/ \E n \in Sockets : \E data \in Chunks : SocketData(n, data)
  \/ ReconnectTimer
  \/ \E k \in Calls : CommandTimer(k)
  \/ \E w \in WsIds : WsConnection(w)
  \/ \E w \in WsIds : WsClosing(w)
  \/ \E w \in WsIds : WsClose(w)
  \/ \E w \in WsIds : WsConnectMessage(w)
  \/ \E w \in WsIds : \E command \in Commands : WsRobotCommand(w, command)
  \/ HeartbeatTimer

----------------------------------------------------------------------------
(* RobotProtocolClient, src/src/App.vue lines 1072-1247: handlers *)

\* private commandTimeout: number = 5000
commandTimeout == 5000

NoClientPromise == [st |-> "none", val |-> NoResponse, err |-> "", arg |-> <<>>]

\* the client's fields as one value
Cl ==
  [socket |-> socket, isConnected |-> isConnected,
   pendingCommands |-> pendingCommands, clientTimers |-> clientTimers,
   clientPromise |-> clientPromise, readyState |-> readyState, sent |-> <<>>]

\* the fields a client handler leaves
ClientAssigns(c) ==
  \E v \in {c} :
    /\ socket' = v.socket
    /\ isConnected' = v.isConnected
    /\ pendingCommands' = v.pendingCommands
    /\ clientTimers' = v.clientTimers
    /\ clientPromise' = v.clientPromise
    /\ readyState' = v.readyState
    /\ sent' = v.sent

ClientBecomes(c) == ClientAssigns(c) /\ UNCHANGED <<bridgeVars, wireVars, fnVars, serviceVars>>

\* Map.set(id, k) and Map.delete(id) on pendingCommands
MapSet(m, id, k) == [i \in DOMAIN m \cup {id} |-> IF i = id THEN k ELSE m[i]]
MapDelete(m, id) == [i \in DOMAIN m \ {id} |-> m[i]]

\* a || b on strings
OrElse(a, b) == IF a = "" THEN b ELSE a

\* get connected(): this.isConnected && this.socket?.readyState === WebSocket.OPEN
connected(c) == c.isConnected /\ c.socket # 0 /\ c.readyState = "OPEN"

\* pending.resolve(response) and pending.reject(new Error(err + arg)) of call k
clientResolve(c, k, response) ==
  IF c.clientPromise[k].st = "pending"
    THEN [c EXCEPT !.clientPromise[k].st = "resolved", !.clientPromise[k].val = response]
    ELSE c

clientReject(c, k, err, arg) ==
  IF c.clientPromise[k].st = "pending"
    THEN [c EXCEPT !.clientPromise[k].st = "rejected", !.clientPromise[k].err = err,
                   !.clientPromise[k].arg = arg]
    ELSE c

\* rejectAllPending(reason), lines 1242-1247
rejectAllPending(c, reason) ==
  LET held == {c.pendingCommands[i] : i \in DOMAIN c.pendingCommands}
  IN [c EXCEPT !.clientPromise =
                  [k \in Calls |->
                     IF k \in held /\ @[k].st = "pending"
                       THEN [@[k] EXCEPT !.st = "rejected", !.err = reason]
                       ELSE @[k]],
               !.pendingCommands = <<>>]

\* sendCommand(command), lines 1160-1201, as call k
sendCommand(c, k, command) ==
  LET c0 == [c EXCEPT !.clientPromise[k] = [NoClientPromise EXCEPT !.st = "pending"]]
      m == clientIdMatch(command)
  IN IF ~connected(c0)
       THEN clientReject(c0, k, "Not connected to robot", <<>>)
     ELSE IF ~m.ok \/ m.digits = <<>>
       THEN clientReject(c0, k, "Invalid command format - missing ID", <<>>)
     ELSE LET id == parseInt(m.digits)
          IN [c0 EXCEPT !.pendingCommands = MapSet(@, id, k),
                        !.sent = Append(@, [type |-> "ROBOT_COMMAND", command |-> command]),
                        !.clientTimers = @ \cup {[id |-> id, call |-> k, command |-> command]}]

\* the setTimeout callback of sendCommand, lines 1194-1199, of timer t
onClientTimeout(c, t) ==
  IF t.id \in DOMAIN c.pendingCommands
    THEN clientReject([c EXCEPT !.pendingCommands = MapDelete(@, t.id)],
                      t.call, "Command timeout: ", t.command)
    ELSE c

\* handleMessage(data), lines 1206-1237
handleMessage(c, message) ==
  IF message.type = "ROBOT_RESPONSE"
    THEN LET response == parseResponse(message.response) IN
         IF response.ok /\ response.id \in DOMAIN c.pendingCommands
           THEN LET k == c.pendingCommands[response.id]
                    c1 == [c EXCEPT !.pendingCommands = MapDelete(@, response.id)]
                IN IF response.success
                     THEN clientResolve(c1, k, response)
                     ELSE clientReject(c1, k, OrElse(response.error, "Command failed"), <<>>)
           ELSE c
  ELSE IF message.type = "STATUS"
    THEN IF ~message.connected
           THEN rejectAllPending([c EXCEPT !.isConnected = FALSE],
                                 OrElse(message.error, "Robot disconnected"))
           ELSE c
  ELSE c

\* the messages the bridge sends the client
ClientMessages ==
  {[type |-> "ROBOT_RESPONSE", response |-> f, connected |-> FALSE, error |-> ""] :
     f \in Frames}
  \cup {[type |-> "STATUS", response |-> <<>>, connected |-> b, error |-> e] :
          b \in BOOLEAN, e \in {"", "ECONNREFUSED"}}

InitClient ==
  /\ socket = 0
  /\ isConnected = FALSE
  /\ pendingCommands = <<>>
  /\ clientTimers = {}
  /\ clientPromise = [k \in Calls |-> NoClientPromise]
  /\ readyState = "NONE"
  /\ sent = <<>>

\* connect(), lines 1096-1135: new WebSocket(serverUrl)
ClientConnect ==
  /\ readyState \in {"NONE", "CLOSED"}
  /\ ClientBecomes([Cl EXCEPT !.socket = 1, !.readyState = "CONNECTING"])

\* socket.onopen, lines 1101-1113
ClientOnOpen ==
  /\ readyState = "CONNECTING"
  /\ ClientBecomes([Cl EXCEPT !.readyState = "OPEN", !.isConnected = TRUE,
                              !.sent = IF socket # 0
                                         THEN <<[type |-> "CONNECT", command |-> <<>>]>>
                                         ELSE <<>>])

\* socket.onclose, lines 1115-1120
ClientOnClose ==
  /\ readyState \in {"CONNECTING", "OPEN", "CLOSING"}
  /\ ClientBecomes(rejectAllPending(
       [Cl EXCEPT !.readyState = "CLOSED", !.isConnected = FALSE],
       "Connection closed"))

\* disconnect(), lines 1140-1147
ClientDisconnect ==
  /\ socket # 0
  /\ ClientBecomes(rejectAllPending(
       [Cl EXCEPT !.socket = 0, !.readyState = "CLOSING", !.isConnected = FALSE],
       "Disconnected"))

\* socket.onmessage, lines 1128-1130
ClientOnMessage(message) ==
  /\ readyState = "OPEN"
  /\ ClientBecomes(handleMessage(Cl, message))

\* a caller calls sendCommand(command)
ClientSendCommand(command) ==
  \E k \in Calls :
    /\ clientPromise[k].st = "none"
    /\ \A j \in 1..(k - 1) : clientPromise[j].st # "none"
    /\ ClientBecomes(sendCommand(Cl, k, command))

\* the timer t of a sendCommand call fires
ClientTimer(t) ==
  /\ t \in clientTimers
  /\ ClientBecomes(onClientTimeout([Cl EXCEPT !.clientTimers = @ \ {t}], t))

NextClient ==
  \/ ClientConnect
  \/ ClientOnOpen
  \/ ClientOnClose
  \/ ClientDisconnect
  \/ \E message \in ClientMessages : ClientOnMessage(message)
  \/ \E command \in Commands :
       clientPromise[MaxClientCmds].st = "none" /\ ClientSendCommand(command)
  \/ \E t \in clientTimers : ClientTimer(t)

----------------------------------------------------------------------------
(* Specifications *)

vars == <<bridgeVars, clientVars, wireVars, fnVars, serviceVars>>

\* no byte stream is followed
InitWire == stream = <<>> /\ pos = 0 /\ dispatched = <<>>

\* no call of the library is followed
NoCall == [fn |-> "none", text |-> <<>>, id |-> 0, values |-> <<>>, regs |-> <<>>]

InitFn == libCall = NoCall /\ libResult = [fn |-> "none"]

\* logs: [] of the initial state (line 71) and private static commandId = 0
ServiceSockets == 1..MaxServiceSockets
ServiceCalls == 1..MaxServiceCmds

NoServiceCall == [st |-> "none", id |-> -1, sock |-> 0, timer |-> FALSE, val |-> NoResponse]

\* logs: [] and isConnected: false of the initial state (lines 56-72), let ws =
\* null (line 75) and private static commandId = 0
InitService ==
  /\ logs = <<>> /\ logged = 0 /\ CommandBuilder_commandId = 0
  /\ serviceWs = 0
  /\ wsState = [n \in ServiceSockets |-> "NONE"]
  /\ stateIsConnected = FALSE
  /\ connectionTimeout = {}
  /\ serviceCalls = [k \in ServiceCalls |-> NoServiceCall]
  /\ serviceSent = <<>>

Init == InitBridge /\ InitClient /\ InitWire /\ InitService /\ InitFn

Spec == Init /\ [][Next]_vars

\* The correlator under a controller that connects, answers and closes, and a
\* browser that submits commands: the same handlers, without the 'error' event
\* and the CONNECT message.
NextCorr ==
  \/ \E n \in Sockets : SocketConnect(n)
  \/ \E n \in Sockets : SocketClose(n)
  \/ \E n \in Sockets : \E data \in CorrChunks : SocketData(n, data)
  \/ ReconnectTimer
  \/ \E k \in Calls : CommandTimer(k)
  \/ \E w \in WsIds : WsConnection(w)
  \/ \E w \in WsIds : WsClosing(w)
  \/ \E w \in WsIds : WsClose(w)
  \/ \E w \in WsIds : \E command \in Commands :
       promise[MaxCorrCmds].st = "none" /\ WsRobotCommand(w, command)

SpecCorr == Init /\ [][NextCorr]_vars

\* Error reports with several browser sockets: a controller that connects
\* and closes, browsers that connect, submit commands and leave, and the
\* command timer.
NextReport ==
  \/ \E n \in Sockets : SocketConnect(n)
  \/ \E n \in Sockets : SocketClose(n)
  \/ \E k \in Calls : CommandTimer(k)
  \/ \E w \in Sessions : WsConnection(w)
  \/ \E w \in Sessions : WsClose(w)
  \/ \E w \in Sessions : \E command \in Commands :
       promise[MaxCorrCmds].st = "none" /\ WsRobotCommand(w, command)

SpecReport == Init /\ [][NextReport]_vars

\* generateId that never returns 0
generateId_SkipsZero(c) == (c % 9999) + 1

\* CommandBuilder.generateId(), src/src/App.vue lines 556-559, on the counter
\* c: the value it stores and returns
generateId(c) == (c + 1) % 10000

\* a command is built with the default id of formatCommand (line 564)
GenerateId ==
  /\ CommandBuilder_commandId' = generateId(CommandBuilder_commandId)
  /\ libResult' = [fn |-> "generateId", val |-> generateId(CommandBuilder_commandId)]
  /\ UNCHANGED <<logs, logged, channelVars, libCall, bridgeVars, clientVars, wireVars>>

\* ids are generated while the page connects, disconnects and reconnects
NextIds ==
  \/ GenerateId
  \/ ClientConnect
  \/ ClientOnOpen
  \/ ClientOnClose
  \/ ClientDisconnect

SpecIds == Init /\ [][NextIds]_vars

\* if (state.logs.length > 100): the capacity of the log
LogCapacity == 100

\* addLog that drops the entry it has just pushed when the log is full
addLog_DropsNewest(l, n, msg) ==
  LET pushed == Append(l, [n |-> n, msg |-> msg])
  IN IF Len(pushed) > LogCapacity THEN SubSeq(pushed, 1, Len(pushed) - 1) ELSE pushed

\* robotService.addLog(msg), robotState.ts lines 85-94, as the n-th append to
\* the log l: push, then shift when more than 100 entries are held
addLog(l, n, msg) ==
  LET pushed == Append(l, [n |-> n, msg |-> msg])
  IN IF Len(pushed) > LogCapacity THEN Tail(pushed) ELSE pushed

\* robotService.clearLogs(), lines 96-99
clearLogs(n) == addLog(<<>>, n, "Logs cleared")

AddLog ==
  /\ logged < MaxLogged
  /\ logged' = logged + 1
  /\ logs' = addLog(logs, logged + 1, "entry")
  /\ UNCHANGED <<CommandBuilder_commandId, channelVars, bridgeVars, clientVars, wireVars, fnVars>>

ClearLogs ==
  /\ logged < MaxLogged
  /\ logged' = logged + 1
  /\ logs' = clearLogs(logged + 1)
  /\ UNCHANGED <<CommandBuilder_commandId, channelVars, bridgeVars, clientVars, wireVars, fnVars>>

NextLog ==
  \/ AddLog
  \/ ClearLogs

SpecLog == Init /\ [][NextLog]_vars

\* robotService as one value
Sv ==
  [logs |-> logs, logged |-> logged, commandId |-> CommandBuilder_commandId,
   ws |-> serviceWs, wsState |-> wsState, isConnected |-> stateIsConnected,
   connectionTimeout |-> connectionTimeout, calls |-> serviceCalls, sent |-> <<>>]

\* the state a handler of robotService leaves
ServiceBecomes(s) ==
  /\ \E v \in {s} :
       /\ logs' = v.logs
       /\ logged' = v.logged
       /\ CommandBuilder_commandId' = v.commandId
       /\ serviceWs' = v.ws
       /\ wsState' = v.wsState
       /\ stateIsConnected' = v.isConnected
       /\ connectionTimeout' = v.connectionTimeout
       /\ serviceCalls' = v.calls
       /\ serviceSent' = v.sent
  /\ UNCHANGED <<bridgeVars, clientVars, wireVars, fnVars>>

\* this.addLog(...) once for every type of the sequence
RECURSIVE addLogs(_, _)
addLogs(v, types) ==
  IF types = <<>> THEN v
  ELSE addLogs([v EXCEPT !.logs = addLog(@, v.logged + 1, types[1]),
                         !.logged = @ + 1],
               Tail(types))

\* ws?.send(message): dropped unless the socket is OPEN; the caller tests for
\* CONNECTING, where send throws
wsSendService(v, message) ==
  IF v.ws # 0 /\ v.wsState[v.ws] = "OPEN" THEN [v EXCEPT !.sent = Append(@, message)] ELSE v

\* ws?.close()
wsCloseService(v) ==
  IF v.ws # 0 /\ v.wsState[v.ws] \in {"CONNECTING", "OPEN"}
    THEN [v EXCEPT !.wsState[v.ws] = "CLOSING"]
    ELSE v

\* robotService.connect(), lines 103-130, n being the socket new WebSocket gives
robotService_connect(v, n) ==
  IF v.isConnected THEN addLogs(v, <<"warn">>)
  ELSE [addLogs(v, <<"info", "info", "info", "info", "info", "info", "info">>)
          EXCEPT !.ws = n, !.wsState[n] = "CONNECTING",
                 !.connectionTimeout = @ \cup {n}]

\* the connectionTimeout callback of socket n, lines 132-141
onConnectionTimeout(v, n) ==
  LET v0 == [v EXCEPT !.connectionTimeout = @ \ {n}]
  IN IF ~v0.isConnected
       THEN wsCloseService(addLogs(v0, <<"error", "warn", "warn", "warn", "warn">>))
       ELSE v0

\* ws.onopen of socket n, lines 143-167; ws?.send on a socket that is still
\* CONNECTING throws and ends the handler
robotService_onopen(v, n) ==
  LET v0 == [addLogs([v EXCEPT !.connectionTimeout = @ \ {n}, !.wsState[n] = "OPEN"],
                     <<"success">>)
               EXCEPT !.isConnected = TRUE]
  IN IF v0.ws # 0 /\ v0.wsState[v0.ws] = "CONNECTING" THEN v0
     ELSE addLogs(wsSendService(v0, [type |-> "CONNECT", command |-> <<>>]), <<"cmd">>)

\* ws.onclose of socket n, lines 212-223; abnormal: event.code === 1006
robotService_onclose(v, n, abnormal) ==
  addLogs([v EXCEPT !.connectionTimeout = @ \ {n}, !.wsState[n] = "CLOSED",
                    !.isConnected = FALSE],
          IF abnormal THEN <<"error", "error", "error", "warn">> ELSE <<"error", "error">>)

\* robotService.disconnect(), lines 258-263
robotService_disconnect(v) ==
  [wsCloseService([addLogs(v, <<"warn">>) EXCEPT !.isConnected = FALSE]) EXCEPT !.ws = 0]

\* robotService.handleRobotResponse(response), lines 234-256
robotService_handleRobotResponse(v, response) ==
  IF ~response.success THEN addLogs(v, <<"error">>)
  ELSE CASE response.type = "MOVE_FINISH" -> addLogs(v, <<"success">>)
         [] response.type = "ROBOT_STOP" -> addLogs(v, <<"warn">>)
         [] response.type = "SAFE_DOOR_OPEN" -> addLogs(v, <<"error">>)
         [] OTHER -> v

\* resolve(value) of the promise of call k
serviceResolve(v, k, value) ==
  IF v.calls[k].st = "pending"
    THEN [v EXCEPT !.calls[k].st = "resolved", !.calls[k].val = value]
    ELSE v

\* ws?.removeEventListener('message', handler) of call k: it removes the
\* listener when ws is still the socket the listener was added to
removeListener(v, k) ==
  IF v.ws # 0 /\ v.ws = v.calls[k].sock THEN [v EXCEPT !.calls[k].sock = 0] ELSE v

\* the listener sendCommand added for call k, lines 473-486, on a message:
\* every response parseResponse recognises settles the call
onCommandMessage(v, k, message) ==
  IF message.type = "ROBOT_RESPONSE" /\ parseResponse(message.response).ok
    THEN serviceResolve(removeListener(v, k), k, parseResponse(message.response))
    ELSE v

\* the listeners of socket n, in the order they were added
RECURSIVE runListeners(_, _, _, _)
runListeners(v, n, k, message) ==
  IF k > MaxServiceCmds THEN v
  ELSE runListeners(IF v.calls[k].sock = n THEN onCommandMessage(v, k, message) ELSE v,
                    n, k + 1, message)

\* ws.onmessage of socket n, lines 169-210, and then the listeners added to n
robotService_onmessage(v, n, message) ==
  LET v1 ==
        CASE message.type = "STATUS" ->
               IF message.connected THEN addLogs(v, <<"success">>)
               ELSE [addLogs(v, <<"error">>) EXCEPT !.isConnected = FALSE]
          [] message.type = "ROBOT_RESPONSE" ->
               IF parseResponse(message.response).ok
                 THEN robotService_handleRobotResponse(addLogs(v, <<"info">>),
                                                       parseResponse(message.response))
                 ELSE addLogs(v, <<"info">>)
          [] message.type = "HEARTBEAT" -> addLogs(v, <<"info">>)
          [] OTHER -> v
  IN runListeners(v1, n, 1, message)

\* { id: 0, success: false, error: 'Timeout' }
TimeoutResponse ==
  [NoResponse EXCEPT !.ok = TRUE, !.id = 0, !.success = FALSE, !.error = "Timeout"]

\* robotService.sendCommand(command), lines 466-504, as call k, the command
\* carrying id; ws?.send on a CONNECTING socket throws inside the executor,
\* which rejects the promise
robotService_sendCommand(v, k, command, id) ==
  IF v.ws = 0 \/ ~v.isConnected
    THEN [addLogs(v, <<"error">>)
            EXCEPT !.calls[k] = [NoServiceCall EXCEPT !.st = "resolved", !.id = id]]
  ELSE LET v0 == [v EXCEPT !.calls[k] =
                    [NoServiceCall EXCEPT !.st = "pending", !.id = id, !.sock = v.ws]]
       IN IF v0.wsState[v0.ws] = "CONNECTING"
            THEN [v0 EXCEPT !.calls[k].st = "rejected"]
            ELSE [addLogs(wsSendService(v0, [type |-> "ROBOT_COMMAND", command |-> command]),
                          <<"cmd">>)
                    EXCEPT !.calls[k].timer = TRUE]

\* the setTimeout callback of sendCommand, lines 498-501
onServiceTimeout(v, k) ==
  serviceResolve(removeListener([v EXCEPT !.calls[k].timer = FALSE], k), k, TimeoutResponse)

\* the page calls connect()
ServiceConnect ==
  /\ logged < MaxServiceLogged
  /\ \E n \in ServiceSockets :
       /\ wsState[n] = "NONE"
       /\ \A j \in 1..(n - 1) : wsState[j] # "NONE"
       /\ ServiceBecomes(robotService_connect(Sv, n))

ServiceConnectionTimeout(n) ==
  /\ n \in connectionTimeout
  /\ ServiceBecomes(onConnectionTimeout(Sv, n))

ServiceOnOpen(n) ==
  /\ wsState[n] = "CONNECTING"
  /\ ServiceBecomes(robotService_onopen(Sv, n))

ServiceOnClose(n, abnormal) ==
  /\ wsState[n] \in {"CONNECTING", "OPEN", "CLOSING"}
  /\ ServiceBecomes(robotService_onclose(Sv, n, abnormal))

\* the page calls disconnect()
ServiceDisconnect ==
  /\ logged < MaxServiceLogged
  /\ serviceWs # 0
  /\ ServiceBecomes(robotService_disconnect(Sv))

\* the bridge's message arrives on socket n
ServiceOnMessage(n, message) ==
  /\ logged < MaxServiceLogged
  /\ wsState[n] = "OPEN"
  /\ ServiceBecomes(robotService_onmessage(Sv, n, message))

\* a caller (getCurrentJointPosition, line 511; getRunStatus from the timer of
\* onopen, line 163) builds a command with the next id and calls sendCommand
ServiceSendCommand ==
  /\ logged < MaxServiceLogged
  /\ \E k \in ServiceCalls : \E id \in {generateId(CommandBuilder_commandId)} :
       /\ serviceCalls[k].st = "none"
       /\ \A j \in 1..(k - 1) : serviceCalls[j].st # "none"
       /\ ServiceBecomes(robotService_sendCommand([Sv EXCEPT !.commandId = id], k,
                                                  formatCommand(GetCurJPos, id), id))

ServiceCommandTimer(k) ==
  /\ serviceCalls[k].timer
  /\ ServiceBecomes(onServiceTimeout(Sv, k))

\* what the bridge sends to the page: replies and notices for ids 1 and 2, a
\* frame no rule recognises, and its STATUS
ServiceMessages ==
  {[type |-> "ROBOT_RESPONSE", response |-> f, connected |-> FALSE] :
     f \in {OkFrame(1), OkFrame(2), EventFrame(FeedMovFinish, 1), OtherFrame}}
  \cup {[type |-> "STATUS", response |-> <<>>, connected |-> b] : b \in BOOLEAN}

NextService ==
  \/ ServiceConnect
  \/ \E n \in ServiceSockets : ServiceConnectionTimeout(n)
  \/ \E n \in ServiceSockets : ServiceOnOpen(n)
  \/ \E n \in ServiceSockets : \E abnormal \in BOOLEAN : ServiceOnClose(n, abnormal)
  \/ ServiceDisconnect
  \/ \E n \in ServiceSockets : \E message \in ServiceMessages : ServiceOnMessage(n, message)
  \/ ServiceSendCommand
  \/ \E k \in ServiceCalls : ServiceCommandTimer(k)

SpecService == Init /\ [][NextService]_vars

\* the bridge in register mode (ROBOT_PORT other than 5000), under a
\* controller that connects, answers or fails requests, and closes
NextModbus ==
  \/ \E n \in Sockets : SocketConnect(n)
  \/ \E n \in Sockets : SocketClose(n)
  \/ ReconnectTimer
  \/ \E w \in WsIds : WsConnection(w)
  \/ \E w \in WsIds : WsClose(w)
  \/ \E w \in WsIds : \E type \in {"WRITE_REGISTER", "READ_REGISTER"} :
       WsRegisterMessage(w, type)
  \/ \E t \in pollTimers : PollTick(t)
  \/ \E i \in 1..MaxRequests : \E ok \in BOOLEAN : ModbusReply(i, ok)
  \/ HeartbeatTimer

InitModbus == InitProtocol("MODBUS_TCP") /\ InitClient /\ InitWire /\ InitService /\ InitFn

SpecModbus == InitModbus /\ [][NextModbus]_vars

\* register mode with the CONNECT message and socket errors as well
NextPoll ==
  \/ \E n \in Sockets : SocketConnect(n)
  \/ \E n \in Sockets : SocketError(n)
  \/ \E n \in Sockets : SocketClose(n)
  \/ ReconnectTimer
  \/ \E w \in WsIds : WsConnection(w)
  \/ \E w \in WsIds : WsConnectMessage(w)
  \/ \E t \in pollTimers : PollTick(t)
  \/ \E i \in 1..MaxRequests : \E ok \in BOOLEAN : ModbusReply(i, ok)

SpecPoll == InitModbus /\ [][NextPoll]_vars

\* the gateway's sessions: browser connections come and go, the controller
\* connects, answers and closes, and one command is submitted
SessionChunks == {[enc |-> "ascii", text |-> f] : f \in {OkFrame(7), OtherFrame}}

NextSession ==
  \/ \E n \in Sockets : SocketConnect(n)
  \/ \E n \in Sockets : SocketClose(n)
  \/ \E n \in Sockets : \E data \in SessionChunks : SocketData(n, data)
  \/ ReconnectTimer
  \/ \E k \in Calls : CommandTimer(k)
  \/ \E w \in Sessions : WsConnection(w)
  \/ \E w \in Sessions : WsClosing(w)
  \/ \E w \in Sessions : WsClose(w)
  \/ \E w \in Sessions : WsConnectMessage(w)
  \/ \E w \in Sessions :
       promise[MaxCorrCmds].st = "none"
         /\ WsRobotCommand(w, formatCommand(GetCurJPos, 7))
  \/ HeartbeatTimer

SpecSession == Init /\ [][NextSession]_vars

\* the byte streams of the frame extraction: one frame, two frames back to
\* back, frames with bytes between and after them
Streams ==
  {OkFrame(7),
   EventFrame(FeedMovFinish, 7) \o FailFrame(7),
   OtherFrame \o <<"x", " ">> \o OtherFrame \o <<"[", "i">>}

\* the text of the ROBOT_RESPONSE messages of o, in the order sent
RECURSIVE Forwarded(_)
Forwarded(o) ==
  IF o = <<>> THEN <<>>
  ELSE (IF Head(o).type = "ROBOT_RESPONSE" THEN <<Head(o).text>> ELSE <<>>)
         \o Forwarded(Tail(o))

\* the 'data' event of socket n with the next len bytes of the stream, while
\* a browser session is open (it is sent every frame dispatched)
Deliver(n, len) ==
  /\ ~crashed
  /\ sock[n] = "connected"
  /\ robotSocket = n
  /\ frontendClient # 0
  /\ ws[frontendClient] = "open"
  /\ pos + len <= Len(stream)
  /\ Assigns(handleTcpStringData(St,
        [enc |-> "ascii", text |-> SubSeq(stream, pos + 1, pos + len)]))
  /\ pos' = pos + len
  /\ dispatched' = dispatched \o Forwarded(out')
  /\ UNCHANGED <<stream, clientVars, fnVars, serviceVars>>

\* frame extraction: the controller connects, a browser session opens, and
\* the stream arrives cut into chunks of any lengths
NextFrames ==
  \/ \E n \in Sockets : SocketConnect(n)
  \/ \E w \in WsIds : WsConnection(w)
  \/ \E n \in Sockets : \E len \in 1..Len(stream) : Deliver(n, len)

InitFrames ==
  /\ InitBridge /\ InitClient /\ InitFn /\ InitService
  /\ stream \in Streams /\ pos = 0 /\ dispatched = <<>>

SpecFrames == InitFrames /\ [][NextFrames]_vars

\* the first bytes of a frame, its end still to arrive
FrameHead == <<"[", "i", "d">>

\* the CONNECT handshake: the controller connects, sends whole frames and the
\* head of a frame (one at a time) and closes; the browser connects, sends
\* CONNECT and one command
ConnectChunks == {[enc |-> "ascii", text |-> f] : f \in {OkFrame(7), FrameHead}}

NextConnect ==
  \/ \E n \in Sockets : SocketConnect(n)
  \/ \E n \in Sockets : SocketClose(n)
  \/ \E n \in Sockets : \E data \in ConnectChunks :
       (data.text = FrameHead => responseBuffer = <<>>) /\ SocketData(n, data)
  \/ ReconnectTimer
  \/ \E k \in Calls : CommandTimer(k)
  \/ \E w \in WsIds : WsConnection(w)
  \/ \E w \in WsIds : WsClose(w)
  \/ \E w \in WsIds : WsConnectMessage(w)
  \/ \E w \in WsIds :
       promise[MaxCorrCmds].st = "none"
         /\ WsRobotCommand(w, formatCommand(GetCurJPos, 7))

SpecConnect == Init /\ [][NextConnect]_vars

SpecClient == Init /\ [][NextClient]_vars

\* RobotProtocolClient with as many sendCommand calls as there are promises:
\* a caller may send a command again, or send one with an id of its own
NextResend ==
  \/ ClientConnect
  \/ ClientOnOpen
  \/ ClientOnClose
  \/ \E message \in ClientMessages : ClientOnMessage(message)
  \/ \E command \in Commands : ClientSendCommand(command)
  \/ \E t \in clientTimers : ClientTimer(t)

SpecResend == Init /\ [][NextResend]_vars

----------------------------------------------------------------------------
(* The protocol library, src/src/App.vue: single calls *)

\* payloads the CommandBuilder produces: getCurJPos(), setVarV3(1, "INT0",
\* "65", 1), setVarV3(4, "STR0", "id=3", 1), getPointPos("grid", 1)
Payloads ==
  {GetCurJPos,
   <<"S", "e", "t", "V", "a", "r", "V", "3", "(", "1", ",", "\"", "I", "N", "T", "0", "\"", ",", "\"", "6", "5", "\"", ",", "1", ")">>,
   <<"S", "e", "t", "V", "a", "r", "V", "3", "(", "4", ",", "\"", "S", "T", "R", "0", "\"", ",", "\"", "i", "d", "=", "3", "\"", ",", "1", ")">>,
   <<"C", "a", "m", "G", "e", "t", "P", "o", "i", "n", "t", "_", "s", "(", "\"", "g", "r", "i", "d", "\"", ",", "1", ")">>}

\* the ids formatCommand is given: generateId() yields 0..9999
PayloadIds == {0, 7, 42, 9999}

\* the calls followed
Calls_formatCommand ==
  {[NoCall EXCEPT !.fn = "formatCommand", !.text = p, !.id = n] :
     p \in Payloads, n \in PayloadIds}

\* the ids of the frames parsed
FrameIds == {0, 7, 42}

\* "[id = N; Ok]"
OkOnlyFrame(n) == IdEq \o NumStr(n) \o <<";", " ", "O", "k", "]">>

\* texts no rule of parseResponse recognises
Unrecognized ==
  {OtherFrame,
   <<"[", "i", "d", " ", "=", " ", "7", ";", " ", "O", "k", "a", "y", "]">>,
   <<"[", "i", "d", " ", "=", " ", ";", " ", "O", "k", "]">>,
   <<"[", "R", "o", "b", "o", "t", "S", "t", "o", "p", ":", " ", "]">>,
   <<"[", "i", "d", " ", "=", " ", "7", ";", " ", "F", "A", "I", "L", "]", " ", "x">>,
   <<>>,
   <<"i", "d", " ", "=", " ", "7", ";", " ", "O", "k">>,
   <<"[", "F", "e", "e", "d", "M", "o", "v", "F", "i", "n", "i", "s", "h", ":", " ", "7", ";", " ", "O", "k", "]">>}

\* part_000: socket n connects
VariantSocketConnect(n) ==
  /\ ~crashed
  /\ sock[n] = "connecting"
  /\ Becomes(onConnect_part000([St EXCEPT !.sock[n] = "connected"]))

\* part_000: the 'close' event of socket n
VariantSocketClose(n) ==
  /\ ~crashed
  /\ sock[n] \in {"destroyed", "connected"}
  /\ Becomes(onClose_part000([St EXCEPT !.sock[n] = "free"]))

\* part_000: a setTimeout(connectRobot, 5000) timer fires
VariantReconnectTimer ==
  /\ ~crashed
  /\ reconnectTimers > 0
  /\ Becomes(connectRobot_part000([St EXCEPT !.reconnectTimers = @ - 1]))

\* part_000: ws.on('message') with a ROBOT_COMMAND message, lines 336-348
VariantRobotCommand(w, command) ==
  /\ ~crashed
  /\ ws[w] = "open"
  /\ \E k \in Calls :
       /\ promise[k].st = "none"
       /\ \A j \in 1..(k - 1) : promise[j].st # "none"
       /\ Becomes(sendToRobot(St, k, w, command))

\* the bridge of part_000; its wss.on('connection') and ws.on('close')
\* (lines 284-305) assign what those of index.js assign
NextVariant ==
  \/ \E n \in Sockets : VariantSocketConnect(n)
  \/ \E n \in Sockets : VariantSocketClose(n)
  \/ VariantReconnectTimer
  \/ \E w \in Sessions : WsConnection(w)
  \/ \E w \in Sessions : WsClose(w)
  \/ \E w \in Sessions : \E command \in Commands : VariantRobotCommand(w, command)

SpecVariant == Init /\ [][NextVariant]_vars

\* the command timers: every call the bridge accepts, over a controller that
\* answers, stays silent, or drops the connection
NextTimers ==
  \/ \E n \in Sockets : SocketConnect(n)
  \/ \E n \in Sockets : SocketClose(n)
  \/ \E n \in Sockets : \E id \in CmdIds :
       SocketData(n, [enc |-> "ascii", text |-> OkFrame(id)])
  \/ ReconnectTimer
  \/ \E k \in Calls : CommandTimer(k)
  \/ \E w \in WsIds : WsConnection(w)
  \/ \E w \in WsIds : \E command \in Commands : WsRobotCommand(w, command)

SpecTimers == Init /\ [][NextTimers]_vars

\* the bridge under a controller whose bytes the GBK decoder may reject:
\* iconv-lite is not part of src/, and the handler has catch blocks for it
NextHex ==
  \/ \E n \in Sockets : SocketConnect(n)
  \/ \E n \in Sockets : SocketClose(n)
  \/ \E n \in Sockets : \E data \in CorrChunks : SocketData(n, data)
  \/ \E n \in Sockets : \E data \in CorrChunks : SocketDataGbkThrows(n, data)
  \/ ReconnectTimer
  \/ \E k \in Calls : CommandTimer(k)
  \/ \E w \in WsIds : WsConnection(w)
  \/ \E w \in WsIds : WsClose(w)
  \/ \E w \in WsIds :
       promise[MaxCorrCmds].st = "none" /\ WsRobotCommand(w, formatCommand(GetCurJPos, 7))

SpecHex == Init /\ [][NextHex]_vars

\* the controller's chunks in SpecCodec: a reply, and the bracketed texts
\* that no rule of parseResponse recognises
CodecChunks ==
  {[enc |-> "ascii", text |-> f] :
     f \in {OkFrame(7)} \cup
           {u \in Unrecognized : Len(u) > 1 /\ u[1] = "[" /\ u[Len(u)] = "]"}}

\* the correlator under a controller that also sends unrecognised frames
NextCodec ==
  \/ \E n \in Sockets : SocketConnect(n)
  \/ \E n \in Sockets : SocketClose(n)
  \/ \E n \in Sockets : \E data \in CodecChunks : SocketData(n, data)
  \/ ReconnectTimer
  \/ \E k \in Calls : CommandTimer(k)
  \/ \E w \in WsIds : WsConnection(w)
  \/ \E w \in WsIds : WsClose(w)
  \/ \E w \in WsIds :
       promise[MaxCorrCmds].st = "none" /\ WsRobotCommand(w, formatCommand(GetCurJPos, 7))

SpecCodec == Init /\ [][NextCodec]_vars

\* the texts handed to parseResponse: the frames of the protocol, frames
\* written with other spacing and case, and texts that are no frame
ResponseTexts ==
  UNION {{FailFrame(n), OkFrame(n), OkOnlyFrame(n), EventFrame(FeedMovFinish, n),
          EventFrame(ActMovFinish, n), EventFrame(RobotStopWord, n),
          EventFrame(SafeDoorIsOpen, n)} : n \in FrameIds}
    \cup Unrecognized
    \cup {<<" ", "[", "i", "d", "=", "7", ";", "F", "A", "I", "L", "]", " ">>,
          <<"[", "I", "D", " ", "=", " ", "7", ";", " ", "o", "k", ";", " ", "5", "]">>,
          <<"[", "i", "d", " ", "=", " ", "7", ";", " ", "O", "k", ";", " ", "]">>,
          <<"[", "i", "d", " ", "=", " ", "7", ";", " ", "O", "k", ";", "]">>,
          <<"[", "i", "d", " ", "=", " ", "7", ";", " ", "O", "k", ";", " ", "F", "A", "I", "L", "]">>,
          <<"[", "a", "c", "t", "m", "o", "v", "f", "i", "n", "i", "s", "h", ":", "7", "]">>}

\* the texts parseResponse hands to parseData (trimmed)
DataTexts ==
  {<<>>,
   <<"O", "k">>,
   <<"4", "2">>,
   <<"-", "3", ".", "5">>,
   <<"1", ".", "1", " ", "2", ".", "2", " ", "3", ".", "3">>,
   <<"1", "0", ".", "0", " ", "2", "0", ".", "0", " ", "3", "0", ".", "0", " ", "4", "0", ".", "0", " ", "5", "0", ".", "0", " ", "6", "0", ".", "0">>,
   <<"P", "1", " ", "1", ".", "5">>,
   <<"a", "b", "c">>,
   <<"0">>,
   <<"1", "e", "3">>,
   <<"0", ".", "5", "0", " ", "7", ".">>,
   <<"1", " ", "\t", " ", "2">>,
   <<"1", "2", "a", "b", "c", " ", "3">>,
   <<"1", ".", "1", "_", "2", ".", "2", "_", "3", ".", "3">>}

\* register blocks as REGISTER_DATA carries them: 16-bit values
RegisterBlocks ==
  {<<>>, <<50100, 0>>, <<50100, 0, 17332, 0, 17679, 0>>,
   <<50100, 0, 17332, 0, 17679, 0, 17723, 0, 18083, 0>>,
   <<5, 0, 7, 0, 65535, 0>>}

\* Math.abs(a - b)
abs(n) == IF n < 0 THEN -n ELSE n

\* robotService.handleModbusData(values), src/src/services/robotState.ts lines
\* 329-357, on the state st = [coordinates, joints]: the state it leaves and
\* whether it logs the coordinates
handleModbusData(st, values) ==
  LET s1 == IF Len(values) >= 3
              THEN [st EXCEPT !.coordinates =
                      [x |-> values[1], y |-> values[2], z |-> values[3]],
                    !.changed = \/ abs(values[1] - st.coordinates.x) > 10
                                \/ abs(values[2] - st.coordinates.y) > 10
                                \/ abs(values[3] - st.coordinates.z) > 10]
              ELSE st
  IN IF Len(values) >= 9
       THEN [s1 EXCEPT !.joints = SubSeq(values, 4, 9)]
       ELSE s1

\* coordinates and joints of the initial state, lines 56-72
InitialRobotState ==
  [coordinates |-> [x |-> 0, y |-> 0, z |-> 0], joints |-> <<0, 0, 0, 0, 0, 0>>,
   changed |-> FALSE]

LibraryCalls ==
  {[NoCall EXCEPT !.fn = "handleModbusData", !.regs = v] : v \in RegisterBlocks} \cup
  Calls_formatCommand
    \cup {[NoCall EXCEPT !.fn = "parseResponse", !.text = t] : t \in ResponseTexts}
    \cup {[NoCall EXCEPT !.fn = "parseData", !.text = t] : t \in DataTexts}
    \cup {[NoCall EXCEPT !.fn = f,
                         !.values = [i \in 1..n |-> [JsNull EXCEPT !.k = "num", !.m = 10 * i + 1]]] :
            f \in {"parseWorldPositionV3", "parseJointPosition", "parseAPOS", "parseTool",
                   "parseUserCoord"},
            n \in 0..17}

\* the browser formats a command and the bridge extracts its id, as
\* sendToRobotTcpString does (lines 338-344)
ExtractId ==
  /\ libCall.fn = "formatCommand"
  /\ libResult.fn = "none"
  /\ \E command \in {formatCommand(libCall.text, libCall.id)} :
       \E m \in {commandIdMatch(command)} :
         libResult' = [fn |-> "commandId", ok |-> m.ok,
                       id |-> IF m.ok THEN parseInt(m.digits) ELSE -1]
  /\ UNCHANGED <<libCall, bridgeVars, clientVars, wireVars, serviceVars>>

\* ProtocolParser.parseResponse(text)
ParseResponse ==
  /\ libCall.fn = "parseResponse"
  /\ libResult.fn = "none"
  /\ libResult' = [fn |-> "parseResponse", val |-> parseResponse(libCall.text)]
  /\ UNCHANGED <<libCall, bridgeVars, clientVars, wireVars, serviceVars>>

\* ProtocolParser.parseData(text)
ParseData ==
  /\ libCall.fn = "parseData"
  /\ libResult.fn = "none"
  /\ libResult' = [fn |-> "parseData", val |-> parseData(libCall.text)]
  /\ UNCHANGED <<libCall, bridgeVars, clientVars, wireVars, serviceVars>>

\* one of the positional unpackers of ProtocolParser applied to values
Unpack ==
  /\ libCall.fn \in {"parseWorldPositionV3", "parseJointPosition", "parseAPOS", "parseTool",
                     "parseUserCoord"}
  /\ libResult.fn = "none"
  /\ \E values \in {[JsNull EXCEPT !.k = "list", !.items = libCall.values]} :
      libResult' =
       [fn |-> libCall.fn,
        val |-> CASE libCall.fn = "parseWorldPositionV3" -> parseWorldPositionV3(values)
                  [] libCall.fn = "parseJointPosition" -> parseJointPosition(values)
                  [] libCall.fn = "parseAPOS" -> parseAPOS(values)
                  [] libCall.fn = "parseTool" -> parseTool(values)
                  [] libCall.fn = "parseUserCoord" -> parseUserCoord(values)]
  /\ UNCHANGED <<libCall, bridgeVars, clientVars, wireVars, serviceVars>>

\* a REGISTER_DATA message reaches the page: handleModbusData(data.values)
HandleModbusData ==
  /\ libCall.fn = "handleModbusData"
  /\ libResult.fn = "none"
  /\ libResult' = [fn |-> libCall.fn,
                    val |-> handleModbusData(InitialRobotState, libCall.regs)]
  /\ UNCHANGED <<libCall, bridgeVars, clientVars, wireVars, serviceVars>>

NextLibrary ==
  \/ HandleModbusData
  \/ ExtractId
  \/ ParseResponse
  \/ ParseData
  \/ Unpack

InitLibrary ==
  /\ InitBridge /\ InitClient /\ InitWire /\ InitService
  /\ libCall \in LibraryCalls /\ libResult = [fn |-> "none"]

SpecLibrary == InitLibrary /\ [][NextLibrary]_vars

----------------------------------------------------------------------------
(* RobotProtocolClient.getCurrentJointPosition, src/src/App.vue lines 1254-1264 *)

\* getCurrentJointPosition() is called: sendCommand(CommandBuilder.getCurJPos())
\* as call k, the id n being the one generateId gives
GetCurrentJointPosition ==
  /\ libCall = NoCall
  /\ \E n \in CmdIds : \E k \in Calls :
       /\ clientPromise[k].st = "none"
       /\ \A j \in 1..(k - 1) : clientPromise[j].st # "none"
       /\ ClientAssigns(sendCommand(Cl, k, formatCommand(GetCurJPos, n)))
       /\ libCall' = [NoCall EXCEPT !.fn = "getCurrentJointPosition", !.id = k]
  /\ UNCHANGED <<libResult, bridgeVars, wireVars, serviceVars>>

\* the rest of getCurrentJointPosition, run when the promise of its
\* sendCommand is settled: a rejection is thrown on, a response is checked
\* and unpacked
AwaitJointPosition ==
  /\ libCall.fn = "getCurrentJointPosition"
  /\ libResult.fn = "none"
  /\ clientPromise[libCall.id].st \in {"resolved", "rejected"}
  /\ \E p \in {clientPromise[libCall.id]} : \E response \in {p.val} :
       \E parsed \in {parseJointPosition(response.data)} :
         libResult' =
           IF p.st = "rejected"
             THEN [fn |-> "getCurrentJointPosition", st |-> "rejected", val |-> JsNull,
                   err |-> p.err]
           ELSE IF \/ ~response.success
                   \/ response.data.k \in {"null", "undefined", "NaN"}
                   \/ response.data.k = "num" /\ response.data.m = 0
                   \/ response.data.k = "str" /\ response.data.s = <<>>
             THEN [fn |-> "getCurrentJointPosition", st |-> "rejected", val |-> JsNull,
                   err |-> "Failed to get joint position"]
           ELSE IF parsed = JsNull
             THEN [fn |-> "getCurrentJointPosition", st |-> "rejected", val |-> JsNull,
                   err |-> "Invalid joint position data"]
           ELSE [fn |-> "getCurrentJointPosition", st |-> "resolved", val |-> parsed,
                 err |-> ""]
  /\ UNCHANGED <<libCall, bridgeVars, clientVars, wireVars, serviceVars>>

\* the client with one call of getCurrentJointPosition; the bridge forwards
\* replies that carry the data texts, FAIL and motion frames
NextFacade ==
  \/ ClientConnect
  \/ ClientOnOpen
  \/ ClientOnClose
  \/ GetCurrentJointPosition
  \/ \E message \in ClientMessages \cup
         {[type |-> "ROBOT_RESPONSE", connected |-> FALSE, error |-> "",
           response |-> IdEq \o NumStr(n) \o <<";", " ", "O", "k", ";", " ">>
                          \o data \o <<"]">>] : n \in CmdIds, data \in DataTexts} :
       ClientOnMessage(message)
  \/ \E t \in clientTimers : ClientTimer(t)
  \/ AwaitJointPosition

SpecFacade == Init /\ [][NextFacade]_vars

----------------------------------------------------------------------------
(* Claims C1-C10 *)

\* the frame is forwarded to the browser session, when there is an open one,
\* and nothing else is sent
ForwardsOnly(text) ==
  out' = IF frontendClient # 0 /\ ws[frontendClient] = "open"
           THEN <<WsMsg(frontendClient, "ROBOT_RESPONSE", text, FALSE)>>
           ELSE <<>>

\* the step is the 'data' event of socket n with chunk data: SocketData(n, data),
\* decided first on what no 'data' event changes (cheaper than the handler)
DataStep(n, data) ==
  /\ sock[n] = "connected"
  /\ sock' = sock
  /\ ws' = ws
  /\ reconnectTimers' = reconnectTimers
  /\ \A k \in Calls :
       /\ promise[k].st = "none" => promise'[k].st = "none"
       /\ promise'[k].st = "rejected" => promise[k].st = "rejected"
  /\ SocketData(n, data)

\* ProtocolParser.parseResponse of each frame the controller sends
ParsedFrame == [f \in Frames \cup {Heartbeat.text} |-> parseResponse(f)]

\* C1: a ROBOT_COMMAND submitted while a command is pending is rejected, and
\* the pending command, its timer and its caller's promise stay as they were.
C1_BusyRejection ==
  [][\A w \in WsIds : \A command \in Commands :
       (pendingCommand # NoPending /\ WsRobotCommand(w, command))
         => /\ pendingCommand' = pendingCommand
            /\ cmdTimers' = cmdTimers
            /\ promise'[pendingCommand.call] = promise[pendingCommand.call]
            /\ \E k \in Calls : promise[k].st = "none" /\ promise'[k].st = "rejected"]_vars

\* C1: the state after a second command took the slot of a pending one
C1_Replaced ==
  \E k \in Calls :
    /\ promise[k].st = "pending"
    /\ pendingCommand # NoPending
    /\ pendingCommand.call # k

\* C2: every accepted command is settled exactly once.  A command not yet
\* settled is the one in the slot and its timer is armed (so that a frame or
\* the timer still settles it), and no promise is settled twice.
C2_SettledExactlyOnce ==
  \A k \in Calls :
    /\ promise[k].n <= 1
    /\ promise[k].st = "pending" => (pendingCommand.call = k /\ k \in cmdTimers)

\* C3: a frame [id = N; Ok; DATA] arriving while command N is pending resolves
\* the command with that frame, empties the slot and cancels its timer; a
\* settled command is never settled again.
C3_AckResolvesOnce ==
  /\ [][\A n \in Sockets : \A data \in CorrChunks :
          (pendingCommand # NoPending
             /\ pendingCommand.timeout \in cmdTimers
             /\ data.text = OkFrame(pendingCommand.id)
             /\ DataStep(n, data))
            => /\ promise'[pendingCommand.call].st = "resolved"
               /\ promise'[pendingCommand.call].val = data.text
               /\ pendingCommand' = NoPending
               /\ pendingCommand.timeout \notin cmdTimers']_vars
  /\ [][\A k \in Calls :
          promise[k].st \in {"resolved", "rejected"} => promise'[k] = promise[k]]_vars
  /\ [](\A k \in Calls : promise[k].n <= 1)

\* C3: command 7 was resolved with the frame [id = 7; Ok; 10.0 20.0]
C3_Resolved ==
  \E k \in Calls :
    /\ promise[k].st = "resolved"
    /\ promise[k].id = 7
    /\ promise[k].val = OkFrame(7)
    /\ pendingCommand = NoPending
    /\ cmdTimers = {}

\* C4: when the timer of the pending command fires, the command is rejected
\* with the timeout error and the slot is emptied; a frame that arrives while
\* the slot is empty settles nothing and is only forwarded to the session.
C4_TimeoutRejects ==
  /\ [][\A k \in Calls :
          CommandTimer(k)
            => /\ pendingCommand.call = k
               /\ promise[k].st = "pending"
               /\ promise'[k].st = "rejected"
               /\ promise'[k].err = "Command timeout"
               /\ pendingCommand' = NoPending
               /\ cmdTimers' = {}]_vars
  /\ [][\A n \in Sockets : \A data \in CorrChunks :
          (pendingCommand = NoPending /\ data # Heartbeat /\ DataStep(n, data))
            => /\ promise' = promise
               /\ pendingCommand' = NoPending
               /\ cmdTimers' = cmdTimers
               /\ ForwardsOnly(data.text)]_vars

\* C4: command 7 timed out, and the late frame [id = 7; Ok; ...] was forwarded
C4_LateFrame ==
  \E k \in Calls :
    /\ promise[k].st = "rejected"
    /\ promise[k].err = "Command timeout"
    /\ promise[k].id = 7
    /\ pendingCommand = NoPending
    /\ frontendClient # 0
    /\ out = <<WsMsg(frontendClient, "ROBOT_RESPONSE", OkFrame(7), FALSE)>>

\* C5: an 'error' or 'close' of the controller socket in use while a command
\* is pending rejects that command and empties the slot in the same step.
C5_DisconnectRejects ==
  [][\A n \in Sockets :
       (n = robotSocket /\ pendingCommand # NoPending
          /\ (SocketError(n) \/ SocketClose(n)))
         => /\ pendingCommand' = NoPending
            /\ promise'[pendingCommand.call].st = "rejected"]_vars

\* C6: a frame whose id differs from the pending command's id, or that arrives
\* while no command is pending, is forwarded to the browser session and leaves
\* the slot, the timers and every promise unchanged.
C6_UnsolicitedForwarded ==
  [][\A n \in Sockets : \A data \in CorrChunks :
       (data # Heartbeat
          /\ (pendingCommand = NoPending
                \/ ParsedFrame[data.text].id # pendingCommand.id)
          /\ DataStep(n, data))
         => /\ pendingCommand' = pendingCommand
            /\ cmdTimers' = cmdTimers
            /\ promise' = promise
            /\ ForwardsOnly(data.text)]_vars

\* C6: the frame [id = 8; Ok; ...] was forwarded while command 7 stays pending
C6_Forwarded ==
  /\ pendingCommand # NoPending
  /\ pendingCommand.id = 7
  /\ pendingCommand.timeout \in cmdTimers
  /\ promise[pendingCommand.call].st = "pending"
  /\ frontendClient # 0
  /\ out = <<WsMsg(frontendClient, "ROBOT_RESPONSE", OkFrame(8), FALSE)>>

\* C7: a frame of the variants Ack, Fail, RobotStop, SafeDoorOpen whose id is
\* the pending command's id empties the slot, and the command is resolved on
\* Ack and rejected on the other three.
C7_ResultFollowsVariant ==
  [][\A n \in Sockets : \A data \in Chunks :
       (pendingCommand # NoPending
          /\ ParsedFrame[data.text].ok
          /\ ParsedFrame[data.text].type # "MOVE_FINISH"
          /\ ParsedFrame[data.text].id = pendingCommand.id
          /\ DataStep(n, data))
         => /\ pendingCommand' = NoPending
            /\ promise'[pendingCommand.call].st =
                 IF ParsedFrame[data.text].success THEN "resolved" ELSE "rejected"]_vars

\* C8: with command N outstanding in the client, the frame [RobotStop: N]
\* rejects it with the error 'Robot stopped', the frame [id = N; FAIL] rejects
\* it with 'Command failed', and the two errors differ.
C8_StopDistinctFromFail ==
  [][\A message \in ClientMessages : \A id \in DOMAIN pendingCommands :
       (message.type = "ROBOT_RESPONSE" /\ ClientOnMessage(message))
         => /\ message.response = EventFrame(RobotStopWord, id)
                => /\ clientPromise'[pendingCommands[id]].st = "rejected"
                   /\ clientPromise'[pendingCommands[id]].err = "Robot stopped"
                   /\ clientPromise'[pendingCommands[id]].err
                        # OrElse(parseResponse(FailFrame(id)).error, "Command failed")
            /\ message.response = FailFrame(id)
                => /\ clientPromise'[pendingCommands[id]].st = "rejected"
                   /\ clientPromise'[pendingCommands[id]].err = "Command failed"]_vars

\* C8: a sendCommand call was rejected with the stop-condition error
C8_Stopped ==
  \E k \in Calls :
    /\ clientPromise[k].st = "rejected"
    /\ clientPromise[k].err = "Robot stopped"

\* C9: at most one controller socket is connecting or connected at any time.
C9_OneAttempt ==
  Cardinality({n \in Sockets : sock[n] \in {"connecting", "connected"}}) <= 1

\* C10: the bridge is never left without a way back to the controller: the
\* process is alive, a bridge that counts itself connected holds a connected
\* socket, and a disconnected bridge has a reconnect timer armed, an attempt
\* in flight or a socket whose 'close' event is still to arm the timer.
C10_RetryArmed ==
  /\ ~crashed
  /\ isRobotConnected => (robotSocket # 0 /\ sock[robotSocket] = "connected")
  /\ ~isRobotConnected =>
       \/ reconnectTimers > 0
       \/ \E n \in Sockets : sock[n] \in {"connecting", "destroyed"}

\* C11: no sequence of events leaves an event handler with an uncaught
\* exception: the bridge process never terminates.
C11_NeverCrashes ==
  crashed = FALSE

\* C12: the browser connection accepted last, while it is open, is the
\* session target, whenever the close events of earlier connections arrive.
C12_LatestStaysTarget ==
  \A w \in Sessions :
    (ws[w] = "open" /\ \A v \in Sessions : v > w => ws[v] = "none")
      => frontendClient = w

\* C13: a step that changes isRobotConnected while a browser session is the
\* open target sends that session a STATUS message with the new state.
C13_StatusBroadcast ==
  [][(isRobotConnected' # isRobotConnected
        /\ frontendClient # 0
        /\ ws[frontendClient] = "open"
        /\ frontendClient' = frontendClient
        /\ ws' = ws)
       => \E i \in 1..Len(out') :
            /\ out'[i].type = "STATUS"
            /\ out'[i].to = frontendClient
            /\ out'[i].connected = isRobotConnected']_vars

\* C14: a CONNECT message handled while the controller is connected replies
\* with the STATUS and changes nothing of the transport, the connection
\* state, the response buffer, the pending command and the timers.
C14_ConnectWhileConnected ==
  [][\A w \in WsIds :
       (isRobotConnected /\ ws[w] = "open" /\ ws' = ws /\ WsConnectMessage(w))
         => /\ UNCHANGED <<robotSocket, isRobotConnected, robotConnectAttempted,
                           responseBuffer, pendingCommand, robotEncoding, sock,
                           reconnectTimers, cmdTimers, promise, frontendClient>>
            /\ out' = <<WsMsg(w, "STATUS", <<>>, TRUE)>>]_vars

\* C14: the STATUS reply to a CONNECT sent while connected, with a command
\* pending and the head of a frame in the response buffer
C14_StatusReplied ==
  /\ isRobotConnected
  /\ pendingCommand # NoPending
  /\ responseBuffer = FrameHead
  /\ frontendClient # 0
  /\ out = <<WsMsg(frontendClient, "STATUS", <<>>, TRUE)>>

\* C15: however the stream is cut into chunks, the frames dispatched so far
\* are the complete frames of the bytes delivered, once each and in order, and
\* the buffer holds the bytes that follow the last complete frame.
C15_FramesOnceInOrder ==
  LET delivered == SubSeq(stream, 1, pos)
  IN /\ dispatched = FrameMatches(delivered, 1)
     /\ responseBuffer =
          SubSeq(delivered, lastIndexOf(delivered, "]") + 1, Len(delivered))

\* C15: a frame that arrived in two chunks was dispatched once
C15_SplitFrame ==
  /\ stream = OkFrame(7)
  /\ pos = Len(stream)
  /\ dispatched = <<OkFrame(7)>>
  /\ out = <<WsMsg(frontendClient, "ROBOT_RESPONSE", OkFrame(7), FALSE)>>
  /\ responseBuffer = <<>>

\* C16: the id the bridge extracts from formatCommand(payload, N) is N.
C16_IdRoundTrip ==
  libResult.fn = "commandId" => (libResult.ok /\ libResult.id = libCall.id)

\* C16: the id 9999 was extracted from "[GetCurJPos();id=9999]"
C16_Extracted ==
  /\ libCall.text = GetCurJPos
  /\ libCall.id = 9999
  /\ libResult.fn = "commandId"
  /\ libResult.id = 9999

\* C17: parseResponse classifies each frame of the protocol by its rule: FAIL
\* is a failure with the id, Ok a success with the id and the parsed data, the
\* motion frames a motion-finish with the id and the kind, RobotStop and
\* SafeDoorIsOpen failures with the id; other texts give no result, and no
\* text is matched by two rules.
C17_ClassifiesByRule ==
  libResult.fn = "parseResponse" =>
    LET t == libCall.text
        r == libResult.val
        matches == <<failMatch(trim(t)).ok, okMatch(trim(t)).ok,
                     WordFrameMatch(trim(t), FeedMovFinish).ok,
                     WordFrameMatch(trim(t), ActMovFinish).ok,
                     WordFrameMatch(trim(t), RobotStopWord).ok,
                     WordFrameMatch(trim(t), SafeDoorIsOpen).ok>>
        rules == {i \in 1..6 : matches[i]}
    IN /\ \A n \in FrameIds :
            /\ t = FailFrame(n)
                 => r = [NoResponse EXCEPT !.ok = TRUE, !.id = n, !.error = "Command failed"]
            /\ t = OkFrame(n)
                 => /\ r.ok /\ r.success /\ r.id = n /\ r.error = ""
                    /\ r.data = [JsNull EXCEPT !.k = "list", !.items =
                                   <<[JsNull EXCEPT !.k = "num", !.m = 1, !.e = 1],
                                     [JsNull EXCEPT !.k = "num", !.m = 2, !.e = 1]>>]
            /\ t = OkOnlyFrame(n)
                 => r = [NoResponse EXCEPT !.ok = TRUE, !.id = n, !.success = TRUE]
            /\ \A word \in {FeedMovFinish, ActMovFinish} :
                 t = EventFrame(word, n)
                   => r = [NoResponse EXCEPT !.ok = TRUE, !.id = n, !.success = TRUE,
                                             !.type = "MOVE_FINISH", !.motionType = word]
            /\ t = EventFrame(RobotStopWord, n)
                 => r = [NoResponse EXCEPT !.ok = TRUE, !.id = n, !.type = "ROBOT_STOP",
                                           !.error = "Robot stopped"]
            /\ t = EventFrame(SafeDoorIsOpen, n)
                 => r = [NoResponse EXCEPT !.ok = TRUE, !.id = n, !.type = "SAFE_DOOR_OPEN",
                                           !.error = "Safety door is open"]
       /\ t \in Unrecognized => r = NoResponse
       /\ Cardinality(rules) <= 1
       /\ r.ok <=> rules # {}
       /\ r.data = IF r.ok /\ r.success /\ r.type = "" THEN parseData(r.dataStr) ELSE JsNull

\* C17: "[id = 42; Ok; 10.0 20.0]" was classified a success with id 42 and
\* the two numbers
C17_Classified ==
  /\ libCall.text = OkFrame(42)
  /\ libResult.fn = "parseResponse"
  /\ libResult.val.success
  /\ libResult.val.id = 42
  /\ Len(libResult.val.data.items) = 2

\* C18: parseData returns null for no token and for the one token Ok, the
\* number for one numeric token, and for two or more tokens the sequence of
\* the tokens in order, each numeric token as its number and every other
\* token as the string it is.  A token is numeric when all of it spells a
\* decimal number.
C18_TokensKept ==
  libResult.fn = "parseData" =>
    LET tokens == SelectSeq(split(libCall.text), LAMBDA p : p # <<>>)
        numeric(tok) == FloatPrefix(tok).len = Len(tok)
        value(tok) == IF numeric(tok) THEN parseFloat(tok)
                      ELSE [JsNull EXCEPT !.k = "str", !.s = tok]
        r == libResult.val
    IN /\ Len(tokens) = 0 => r = JsNull
       /\ tokens = <<<<"O", "k">>>> => r = JsNull
       /\ Len(tokens) = 1 /\ numeric(tokens[1]) => r = parseFloat(tokens[1])
       /\ Len(tokens) >= 2 =>
            /\ r.k = "list"
            /\ Len(r.items) = Len(tokens)
            /\ \A i \in 1..Len(tokens) : r.items[i] = value(tokens[i])

\* C18: "1.1 2.2 3.3" was parsed to the sequence 1.1, 2.2, 3.3
C18_Sequence ==
  /\ libCall.text = <<"1", ".", "1", " ", "2", ".", "2", " ", "3", ".", "3">>
  /\ libResult.fn = "parseData"
  /\ libResult.val.items = <<[JsNull EXCEPT !.k = "num", !.m = 11, !.e = -1],
                             [JsNull EXCEPT !.k = "num", !.m = 22, !.e = -1],
                             [JsNull EXCEPT !.k = "num", !.m = 33, !.e = -1]>>

\* C19: a positional unpacker returns none when it is given fewer values
\* than its record requires, and a record it returns holds at each position
\* the value given there, a position with no value being left undefined
\* rather than filled with a default.
C19_NoDefaults ==
  libResult.fn \in {"parseWorldPositionV3", "parseJointPosition", "parseAPOS", "parseTool",
                    "parseUserCoord"} =>
    LET fields ==
          CASE libResult.fn = "parseWorldPositionV3" ->
                 <<"mod", "cf1", "cf2", "cf3", "cf4", "cf5", "cf6", "x", "y", "z", "a", "b", "c">>
            [] libResult.fn = "parseJointPosition" -> <<"j1", "j2", "j3", "j4", "j5", "j6">>
            [] libResult.fn = "parseAPOS" ->
                 <<"a1", "a2", "a3", "a4", "a5", "a6", "a7", "a8", "a9", "a10", "a11", "a12",
                   "a13", "a14", "a15", "a16">>
            [] libResult.fn = "parseTool" ->
                 <<"id", "x", "y", "z", "a", "b", "c", "M", "Mx", "My", "Mz", "Ixx", "Iyy",
                   "Izz", "Ixy", "Ixz", "Iyz">>
            [] libResult.fn = "parseUserCoord" -> <<"id", "x", "y", "z", "a", "b", "c">>
        required ==
          CASE libResult.fn = "parseWorldPositionV3" -> 13
            [] libResult.fn \in {"parseJointPosition", "parseAPOS"} -> 6
            [] libResult.fn \in {"parseTool", "parseUserCoord"} -> 7
    IN IF Len(libCall.values) < required THEN libResult.val = JsNull
       ELSE /\ DOMAIN libResult.val = {fields[i] : i \in 1..Len(fields)}
            /\ \A i \in 1..Len(fields) :
                 libResult.val[fields[i]] =
                   IF i <= Len(libCall.values) THEN libCall.values[i]
                   ELSE [JsNull EXCEPT !.k = "undefined"]

\* C19: parseJointPosition was given five values and returned none
C19_TooFew ==
  /\ libCall.fn = "parseJointPosition"
  /\ Len(libCall.values) = 5
  /\ libResult.fn = "parseJointPosition"
  /\ libResult.val = JsNull

\* C20: when the sendCommand of getCurrentJointPosition was resolved by an Ok
\* reply with six numbers, the call resolves with j1..j6 those numbers in
\* order; when the reply carried fewer than six values, the call is rejected.
C20_JointsOrError ==
  (libResult.fn = "getCurrentJointPosition" /\ clientPromise[libCall.id].st = "resolved") =>
    LET tokens == SelectSeq(split(clientPromise[libCall.id].val.dataStr), LAMBDA p : p # <<>>)
    IN /\ (Len(tokens) = 6 /\ \A i \in 1..6 : FloatPrefix(tokens[i]).len = Len(tokens[i]))
            => /\ libResult.st = "resolved"
               /\ libResult.val = [j1 |-> parseFloat(tokens[1]), j2 |-> parseFloat(tokens[2]),
                                   j3 |-> parseFloat(tokens[3]), j4 |-> parseFloat(tokens[4]),
                                   j5 |-> parseFloat(tokens[5]), j6 |-> parseFloat(tokens[6])]
       /\ Len(tokens) < 6 => libResult.st = "rejected"

\* C20: "[id = 7; Ok; 10.0 20.0 30.0 40.0 50.0 60.0]" resolved the call with
\* j1 = 10, ..., j6 = 60
C20_JointsResolved ==
  /\ libResult.fn = "getCurrentJointPosition"
  /\ libResult.st = "resolved"
  /\ Len(clientPromise[libCall.id].val.data.items) = 6
  /\ libResult.val.j1 = [JsNull EXCEPT !.k = "num", !.m = 1, !.e = 1]
  /\ libResult.val.j6 = [JsNull EXCEPT !.k = "num", !.m = 6, !.e = 1]

\* C21: an encoding other than UTF-8 is kept by every later chunk of the
\* connection: it changes only back to UTF-8 and only in a step in which no
\* connection stays up; and every step in which a connection is closed (after
\* an error or not) leaves the encoding UTF-8.
C21_PinnedUntilDisconnect ==
  [][/\ (robotEncoding # "utf8" /\ robotEncoding' # robotEncoding)
          => /\ robotEncoding' = "utf8"
             /\ ~\E n \in Sockets : sock[n] = "connected" /\ sock'[n] = "connected"
     /\ (\E n \in Sockets : sock[n] = "connected" /\ sock'[n] = "free")
          => robotEncoding' = "utf8"]_vars

\* C21: a chunk was decoded with the pinned GBK encoding
C21_Pinned ==
  /\ robotEncoding = "gbk"
  /\ \E n \in Sockets : sock[n] = "connected"
  /\ Len(out) > 0 /\ out[1].type = "ROBOT_RESPONSE"

\* C22: a chunk that is the one byte 0x20 is answered with 0x20 written to the
\* controller and with nothing else: the response buffer, the encoding, the
\* pending command, its timer and the promises are unchanged, nothing is sent
\* to the session and the process goes on.
C22_HeartbeatEchoed ==
  [][\A n \in Sockets :
       DataStep(n, Heartbeat)
         => /\ Len(out') = 1
            /\ out'[1].ch = "robot" /\ out'[1].type = "WRITE" /\ out'[1].text = <<" ">>
            /\ responseBuffer' = responseBuffer
            /\ robotEncoding' = robotEncoding
            /\ pendingCommand' = pendingCommand
            /\ cmdTimers' = cmdTimers
            /\ promise' = promise
            /\ crashed' = FALSE]_vars

\* C22: the heartbeat byte was echoed while a command is pending
C22_Echoed ==
  /\ Len(out) = 1 /\ out[1].ch = "robot" /\ out[1].text = <<" ">>
  /\ pendingCommand # NoPending
  /\ ~crashed

\* C23: a WRITE_REGISTER whose write fails, because modbusClient is null or
\* because the awaited write throws, sends one ERROR message to the browser
\* socket that asked (while that socket is open) and leaves the connection
\* state, the sockets and the reconnect timers as they were.
C23_WriteFailureReported ==
  [][/\ \A w \in WsIds :
          (modbusClient = 0 /\ WsRegisterMessage(w, "WRITE_REGISTER"))
            => /\ Len(out') = 1 /\ out'[1].to = w /\ out'[1].type = "ERROR"
               /\ UNCHANGED <<isRobotConnected, robotSocket, modbusClient, sock,
                              reconnectTimers, requests>>
     /\ \A i \in 1..MaxRequests :
          (i <= Len(requests) /\ requests[i].type = "WRITE_REGISTER" /\ ModbusReply(i, FALSE))
            => /\ out' = IF ws[requests[i].ws] = "open"
                           THEN <<WsMsg(requests[i].ws, "ERROR", <<>>, FALSE)>> ELSE <<>>
               /\ UNCHANGED <<isRobotConnected, robotSocket, modbusClient, sock,
                              reconnectTimers>>]_vars

\* C23: a WRITE_REGISTER sent while the controller is disconnected was answered
\* with ERROR
C23_ErrorWhileDisconnected ==
  /\ PROTOCOL = "MODBUS_TCP"
  /\ modbusClient = 0 /\ ~isRobotConnected
  /\ Len(out) = 1 /\ out[1].type = "ERROR"
  /\ out[1].text = <<"C", "a", "n", "n", "o", "t", " ", "r", "e", "a", "d", " ", "p", "r", "o", "p", "e", "r", "t", "i", "e", "s", " ", "o", "f", " ", "n", "u", "l", "l">>

\* C24: a poll read that fails sends nothing, leaves the connection state, the
\* sockets, the reconnect timers and the poll timer as they were; and a tick
\* of the poll timer, while the bridge counts itself connected and has a
\* client, starts a read.
C24_PollFailureSwallowed ==
  [][/\ \A i \in 1..MaxRequests :
          (i <= Len(requests) /\ requests[i].type = "POLL" /\ ModbusReply(i, FALSE))
            => /\ out' = <<>>
               /\ UNCHANGED <<isRobotConnected, robotSocket, modbusClient, sock,
                              reconnectTimers, pollTimers, modbusPollTimer, frontendClient>>
     /\ \A t \in pollTimers :
          (isRobotConnected /\ modbusClient # 0 /\ PollTick(t))
            => /\ requests' = Append(requests, [type |-> "POLL", client |-> modbusClient,
                                                 ws |-> 0])
               /\ pollTimers' = pollTimers]_vars

\* C24: a poll read is awaited on a socket that has closed, with a session
\* open; the read can only fail
C24_PollFailing ==
  /\ Len(requests) >= 1
  /\ requests[1].type = "POLL"
  /\ sock[requests[1].client] # "connected"
  /\ frontendClient # 0 /\ ws[frontendClient] = "open"

\* C25: every COMMAND_ERROR goes to the browser socket whose ROBOT_COMMAND
\* handler made the call that is rejected in that step, with the error of that
\* rejection; a ROBOT_COMMAND message of socket w sends COMMAND_ERROR to no
\* other socket than w.
C25_ErrorToSubmitter ==
  [][/\ \A i \in 1..Len(out') :
          out'[i].type = "COMMAND_ERROR"
            => \E k \in Calls :
                 /\ promise[k].st \in {"none", "pending"}
                 /\ promise'[k].st = "rejected"
                 /\ promise'[k].err = out'[i].error
                 /\ promise'[k].ws = out'[i].to
                 /\ promise[k].st = "pending" => promise[k].ws = out'[i].to
     /\ \A w \in Sessions :
          (\E command \in Commands : WsRobotCommand(w, command))
            => \A i \in 1..Len(out') :
                 out'[i].type = "COMMAND_ERROR" => out'[i].to = w]_vars

\* C25: a timeout is reported to the socket that submitted the command while
\* another socket is the session target
C25_ErrorPastTarget ==
  /\ Len(out) = 1
  /\ out[1].type = "COMMAND_ERROR"
  /\ out[1].error = "Command timeout"
  /\ frontendClient # 0
  /\ out[1].to # frontendClient

\* C26: a HEARTBEAT is sent only while the bridge counts the controller as
\* connected, to the session target and with connected = true, in a step that
\* leaves the connection state alone; and whenever the controller is connected
\* and the session target is open, the tick of the heartbeat timer sends
\* exactly one HEARTBEAT to it.
C26_HeartbeatWhileConnected ==
  [][/\ \A i \in 1..Len(out') :
          out'[i].type = "HEARTBEAT"
            => /\ isRobotConnected /\ isRobotConnected'
               /\ out'[i].to = frontendClient
               /\ out'[i].connected
               /\ Len(out') = 1
     /\ (HeartbeatTimer /\ ws[frontendClient] = "open")
          => /\ out' = <<WsMsg(frontendClient, "HEARTBEAT", <<>>, TRUE)>>
             /\ UNCHANGED <<isRobotConnected, frontendClient, robotSocket, sock, ws>>
     /\ (~crashed /\ isRobotConnected /\ frontendClient # 0) => ENABLED HeartbeatTimer]_vars

\* C26: a heartbeat has just been sent to the open session of a connected bridge
C26_HeartbeatSent ==
  /\ Len(out) = 1
  /\ out[1].type = "HEARTBEAT"
  /\ out[1].to = frontendClient
  /\ isRobotConnected
  /\ \E n \in Sockets : sock[n] = "connected"

\* C27: once a register block of six or more values has been handled, the
\* coordinates are the values at offsets 0, 2 and 4 divided by 100.
C27_ScaledCoordinates ==
  (libResult.fn = "handleModbusData" /\ Len(libCall.regs) >= 6)
    => /\ 100 * libResult.val.coordinates.x = libCall.regs[1]
       /\ 100 * libResult.val.coordinates.y = libCall.regs[3]
       /\ 100 * libResult.val.coordinates.z = libCall.regs[5]

\* C27: the block of the register map has been handled
C27_BlockHandled ==
  /\ libResult.fn = "handleModbusData"
  /\ libCall.regs = <<50100, 0, 17332, 0, 17679, 0>>
  /\ libResult.val.changed

\* C28: the log never holds more than 100 entries; its entries are the most
\* recently appended ones, in the order of their appends; addLog on a log of
\* 100 entries drops the oldest entry and keeps the other 99 in place, and on
\* a shorter log it drops nothing.
C28_LogBoundedRecent ==
  [][/\ Len(logs') <= LogCapacity
     /\ \A i \in 1..Len(logs') : logs'[i].n = logged' - Len(logs') + i
     /\ (AddLog /\ Len(logs) = LogCapacity)
          => /\ Len(logs') = LogCapacity
             /\ SubSeq(logs', 1, LogCapacity - 1) = Tail(logs)
             /\ logs'[LogCapacity].n = logged + 1
     /\ (AddLog /\ Len(logs) < LogCapacity)
          => /\ Len(logs') = Len(logs) + 1
             /\ SubSeq(logs', 1, Len(logs)) = logs
             /\ logs'[Len(logs')].n = logged + 1]_vars

\* C28: the log is full and its oldest entries have been dropped
C28_Overflowed ==
  /\ Len(logs) = LogCapacity
  /\ logs[1].n > 2
  /\ logs[LogCapacity].n = logged

\* C29: every id generateId returns is in 0..9999 and is the id it returned
\* before plus one modulo 10000 (1 for the first call); connecting,
\* disconnecting and reconnecting leave the counter and the last id alone.
C29_IdSequence ==
  [][/\ GenerateId
          => /\ libResult'.val \in 0..9999
             /\ libResult'.val =
                  IF libResult.fn = "generateId" THEN (libResult.val + 1) % 10000 ELSE 1
     /\ ~GenerateId => UNCHANGED <<CommandBuilder_commandId, libResult>>]_vars

\* C29: the sequence has wrapped: id 0 was returned, and the page has
\* disconnected since
C29_Wrapped ==
  /\ libResult.fn = "generateId"
  /\ libResult.val = 0
  /\ readyState = "CLOSED"

\* C30: a sendCommand call of robotService that is settled by a message is
\* settled with a response whose id is the id of the command it sent.
C30_SettledByOwnId ==
  [][\A k \in ServiceCalls :
       (/\ serviceCalls[k].st = "pending"
        /\ serviceCalls'[k].st = "resolved"
        /\ serviceCalls'[k].val # TimeoutResponse)
         => serviceCalls'[k].val.id = serviceCalls[k].id]_vars

\* C30: a call has been settled with the reply to its own command
C30_SettledByReply ==
  \E k \in ServiceCalls :
    /\ serviceCalls[k].st = "resolved"
    /\ serviceCalls[k].val.ok
    /\ serviceCalls[k].val.success
    /\ serviceCalls[k].val.id = serviceCalls[k].id

\* C31: every pending sendCommand call of RobotProtocolClient holds an entry of
\* pendingCommands (so that a response or its timer settles it), and a timer
\* that finds an entry under its id finds the entry of its own call.
C31_OwnEntryOnly ==
  [][/\ \A k \in Calls :
          clientPromise'[k].st = "pending"
            => \E id \in DOMAIN pendingCommands' : pendingCommands'[id] = k
     /\ \A t \in clientTimers :
          (ClientTimer(t) /\ t.id \in DOMAIN pendingCommands)
            => pendingCommands[t.id] = t.call]_vars

\* C31: two calls were made with the same id, and both are settled
C31_SameIdSettled ==
  /\ \A k \in Calls : clientPromise[k].st \in {"resolved", "rejected"}
  /\ clientPromise[1].st = "resolved"
  /\ clientPromise[2].st = "resolved"
  /\ clientPromise[1].val.id = clientPromise[2].val.id

\* C32: a chunk that is one frame no rule of parseResponse recognises leaves
\* the pending command, its timer and its promise as they were, and leaves
\* the controller connection as it was.
C32_UnrecognizedIgnored ==
  [][\A n \in Sockets : \A data \in CodecChunks :
       (~parseResponse(data.text).ok /\ SocketData(n, data))
         => UNCHANGED <<pendingCommand, promise, cmdTimers, sock, isRobotConnected,
                        robotSocket, reconnectTimers>>]_vars

\* C32: an unrecognised frame has been forwarded while a command is pending
C32_ForwardedWhilePending ==
  /\ pendingCommand # NoPending
  /\ Len(out) = 1
  /\ out[1].type = "ROBOT_RESPONSE"
  /\ ~parseResponse(out[1].text).ok

\* C33: while the encoding is UTF-8, a chunk whose UTF-8 text holds no U+FFFD
\* leaves the encoding UTF-8 and is appended to the buffer as that text (the
\* frames of the buffer are then dispatched from it).
C33_Utf8Kept ==
  [][\A n \in Sockets : \A data \in CorrChunks :
       (/\ robotEncoding = "utf8"
        /\ ~includes(toStringUtf8(data), "\\uFFFD")
        /\ SocketData(n, data))
         => /\ robotEncoding' = "utf8"
            /\ \A i \in 1..Len(out') :
                 out'[i].type = "ROBOT_RESPONSE" => out'[i].text = toStringUtf8(data)]_vars

\* C33: the first chunk of a connection, plain ASCII, has been decoded and
\* its frame forwarded
C33_AsciiDecoded ==
  /\ Len(out) = 1
  /\ out[1].type = "ROBOT_RESPONSE"
  /\ out[1].text = OkFrame(7)
  /\ responseBuffer = <<>>
  /\ robotEncoding \in {"utf8", "gbk"}

\* C34: while the encoding is the raw-hex fallback, a chunk dispatches nothing:
\* no ROBOT_RESPONSE is sent, and the pending command and the promises stay
\* as they were.
C34_HexProducesNoFrame ==
  [][(robotEncoding = "hex" /\ robotEncoding' = "hex")
       => /\ \A i \in 1..Len(out') : out'[i].type # "ROBOT_RESPONSE"
          /\ \A k \in Calls : promise'[k].st = "resolved" => promise[k].st = "resolved"]_vars

\* C34: the connection has fallen back to raw hex and is still up
C34_FellBack ==
  /\ robotEncoding = "hex"
  /\ robotSocket # 0
  /\ sock[robotSocket] = "connected"
  /\ frontendClient # 0

\* C35: a command timer is armed exactly while a command is pending, the
\* armed timer is the one created by the pending command's call, and the
\* expiry of a timer settles no call but the one that armed it.
C35_TimerOfPending ==
  [][/\ cmdTimers = (IF pendingCommand = NoPending THEN {} ELSE {pendingCommand.timeout})
     /\ cmdTimers' = (IF pendingCommand' = NoPending THEN {} ELSE {pendingCommand'.timeout})
     /\ pendingCommand' # NoPending => pendingCommand'.timeout = pendingCommand'.call
     /\ \A k \in Calls :
          CommandTimer(k) => \A j \in Calls \ {k} : promise'[j] = promise[j]]_vars

\* C35: a second command has replaced the first, whose timer is gone, and the
\* second command's timer is the one armed
C35_Replaced ==
  /\ pendingCommand.call = 2
  /\ promise[1].st = "pending"
  /\ cmdTimers = {2}

\* C36: a bridge that counts itself connected holds a socket that is connected
\* (in register mode the Modbus client is bound to it), and the close or error
\* event of a socket that has been replaced changes neither the reference to
\* the newer socket nor the connected flag.
C36_FlagMeansCurrentSocket ==
  [][/\ isRobotConnected' =>
          /\ robotSocket' # 0
          /\ sock'[robotSocket'] = "connected"
          /\ PROTOCOL' = "MODBUS_TCP" => modbusClient' = robotSocket'
     /\ \A n \in Sockets :
          (robotSocket \notin {0, n} /\ (SocketClose(n) \/ SocketError(n)))
            => /\ robotSocket' = robotSocket
               /\ isRobotConnected' = isRobotConnected]_vars

\* C36: a destroyed socket has its close event outstanding while the bridge
\* refers to the socket that replaced it
C36_OlderSocketClosing ==
  \E n \in Sockets :
    /\ sock[n] = "destroyed"
    /\ robotSocket \notin {0, n}
    /\ sock[robotSocket] \in {"connecting", "connected"}

\* C37: a command submitted while the controller is not connected, or one
\* without an id, is rejected in the same step with the error of its case;
\* nothing is written to the controller, and the pending command and the
\* armed timers stay as they were.
C37_RejectedAtOnce ==
  [][\A w \in WsIds : \A command \in Commands :
       ((robotSocket = 0 \/ ~isRobotConnected \/ ~commandIdMatch(command).ok)
          /\ WsRobotCommand(w, command))
         => /\ \E k \in Calls :
                 /\ promise[k].st = "none"
                 /\ promise'[k].st = "rejected"
                 /\ promise'[k].err =
                      (IF robotSocket = 0 \/ ~isRobotConnected
                         THEN "Not connected to robot"
                         ELSE "Invalid command format - missing ID")
            /\ \A i \in 1..Len(out') : out'[i].type # "WRITE"
            /\ UNCHANGED <<pendingCommand, cmdTimers>>]_vars

\* C37: a command without an id was rejected while another command is pending
\* with its timer armed
C37_RejectedBesidePending ==
  /\ promise[2].st = "rejected"
  /\ promise[2].err = "Invalid command format - missing ID"
  /\ promise[1].st = "pending"
  /\ pendingCommand.call = 1
  /\ cmdTimers = {1}

\* C38: at most one poll timer is armed; the REGISTER_DATA of a poll is sent
\* only while the controller is connected; the close of the transport leaves
\* no poll timer armed, and only a connect arms one.
C38_OnePollTimerWhileConnected ==
  [][/\ Cardinality(pollTimers) <= 1
     /\ Cardinality(pollTimers') <= 1
     /\ \A i \in 1..Len(requests) : \A ok \in BOOLEAN :
          (requests[i].type = "POLL" /\ ModbusReply(i, ok)
             /\ \E j \in 1..Len(out') : out'[j].type = "REGISTER_DATA")
            => isRobotConnected
     /\ \A n \in Sockets : SocketClose(n) => pollTimers' = {}
     /\ (pollTimers = {} /\ pollTimers' # {})
          => \E n \in Sockets : SocketConnect(n) /\ isRobotConnected']_vars

\* C38: the transport has closed after polling had started, and no poll
\* timer is armed
C38_PollingStopped ==
  /\ ~isRobotConnected
  /\ robotSocket = 0
  /\ pollTimers = {}
  /\ \E i \in 1..Len(requests) : requests[i].type = "POLL"

\* C39: in the bridge of part_000 a socket whose connect callback has run
\* leaves the bridge connected, and a well-formed command submitted while the
\* socket is connected is written to the controller.
C39_ConnectCallbackConnects ==
  [][/\ \A n \in Sockets : VariantSocketConnect(n) => isRobotConnected'
     /\ \A w \in Sessions : \A command \in Commands :
          (robotSocket # 0 /\ sock[robotSocket] = "connected"
             /\ clientIdMatch(command).ok /\ VariantRobotCommand(w, command))
            => \E i \in 1..Len(out') :
                 out'[i].type = "WRITE" /\ out'[i].text = command]_vars

\* C39: a command was refused as not connected while the controller socket
\* is connected
C39_RefusedWhileSocketUp ==
  /\ robotSocket # 0
  /\ sock[robotSocket] = "connected"
  /\ \E k \in Calls :
       /\ promise[k].st = "rejected"
       /\ promise[k].err = "Not connected to robot"
       /\ promise[k].n = 1

\* C40: a sendCommand call of robotService is never rejected; made without a
\* connection it resolves with null at once; otherwise it is pending with its
\* timer armed, and it resolves with a parsed response or, when its timer
\* fires, with the Timeout response, its listener removed in either case.
C40_AlwaysResolves ==
  [][\A k \in ServiceCalls :
       /\ serviceCalls'[k].st # "rejected"
       /\ (serviceCalls[k].st = "none" /\ serviceCalls'[k].st # "none")
            => IF serviceWs = 0 \/ ~stateIsConnected
                 THEN serviceCalls'[k].st = "resolved" /\ serviceCalls'[k].val = NoResponse
                 ELSE serviceCalls'[k].st = "pending"
       /\ serviceCalls'[k].st = "pending" => serviceCalls'[k].timer
       /\ (serviceCalls[k].st = "pending" /\ serviceCalls'[k].st = "resolved")
            => /\ serviceCalls'[k].sock = 0
               /\ IF ServiceCommandTimer(k)
                    THEN serviceCalls'[k].val = TimeoutResponse
                    ELSE \E n \in ServiceSockets : \E message \in ServiceMessages :
                           /\ ServiceOnMessage(n, message)
                           /\ message.type = "ROBOT_RESPONSE"
                           /\ serviceCalls'[k].val = parseResponse(message.response)]_vars

\* C40: a call was settled by its timer after disconnect(), and its listener
\* is still on the socket it was added to
C40_ListenerLeft ==
  \E k \in ServiceCalls :
    /\ serviceCalls[k].st = "resolved"
    /\ serviceCalls[k].val = TimeoutResponse
    /\ serviceCalls[k].sock # 0
    /\ serviceWs = 0

====
